---------------------------- MODULE Spec2Model ----------------------------
(***************************************************************************)
(* Live preview synchronizer and image upload controller of the section    *)
(* item editor (static/js/admin/section-item-form.js, the admin form, and  *)
(* static/js/js.js, the page script with the editable preview).            *)
(*                                                                         *)
(* Text is a sequence of tokens: a token is one character ("a", " ",       *)
(* "nbsp") or one indivisible piece of text (a placeholder string, a URL). *)
(* Numbers that the code keeps as floats are fixed-point integers: a scale *)
(* is counted in thousandths, a rotation in tenths of a degree.            *)
(***************************************************************************)
EXTENDS Integers, Sequences, FiniteSets, TLC

VARIABLES
    absent,   \* the form controls and preview elements the page does not have
    page,     \* which script runs: "admin" (section-item-form.js) or "site" (js.js)
    fields,   \* values of the form controls title .. imageRotation
    inputs,   \* the [data-card-image-input] controls and their upload widgets
    docs,     \* the #documents inline container and what the layout did with it
    pv,       \* the preview nodes: text, html, attributes, classes, styles
    focus,    \* document.activeElement among the editable preview nodes
    ck,       \* the rich-text editor instance of the summary control
    globalEndpoint, \* window.__orlImageUploadEndpoint ("" when not set)
    reqs,     \* every upload request started, in order, with the stage of its promise chain
    notes,    \* notifications dispatched by the handler that ran last
    last      \* the event or callback that ran last

vars == <<absent, page, fields, inputs, docs, pv, focus, ck, globalEndpoint, reqs, notes, last>>

----------------------------------------------------------------------------
(* Bounds of the model *)

MaxUploads == 2    \* upload requests started in one run
MaxText == 2       \* tokens a preview node holds after a keystroke added to what it displays
MaxPending == 1    \* editor notifications queued and not yet delivered

----------------------------------------------------------------------------
(* Strings *)

\* What \s matches and trim() removes: the space, the non-breaking space and
\* the line break
WhiteSpace == {" ", "nbsp", "\n"}

RECURSIVE TrimStart(_)
TrimStart(s) ==
    IF s = <<>> THEN <<>>
    ELSE IF Head(s) \in WhiteSpace THEN TrimStart(Tail(s)) ELSE s

RECURSIVE TrimEnd(_)
TrimEnd(s) ==
    IF s = <<>> THEN <<>>
    ELSE IF s[Len(s)] \in WhiteSpace THEN TrimEnd(SubSeq(s, 1, Len(s) - 1)) ELSE s

\* String.prototype.trim
Trim(s) == TrimEnd(TrimStart(s))

\* value || fallback, for strings
OrElse(value, fallback) == IF value = <<>> THEN fallback ELSE value

----------------------------------------------------------------------------
(* Markup: decodeHtml and sanitizeHtml *)

\* The tokens the regular expression's <script[^>]*> matches (any case, any
\* attributes) and the ones its <\/script> matches
OpenTags == {"<script>", "<SCRIPT src=x>"}
CloseTags == {"</script>"}

\* What the HTML parser makes of one token inside a textarea: entities decoded.
DecodeToken(t) ==
    CASE t = "&lt;script&gt;" -> "<script>"
      [] t = "&lt;/script&gt;" -> "</script>"
      [] OTHER -> t

\* decodeHtml: textarea.innerHTML = html; return textarea.value
decodeHtml(html) == [i \in 1..Len(html) |-> DecodeToken(html[i])]

\* First index >= i of a closing script tag reached from i over characters the
\* regular expression's "." accepts (anything but a line terminator); 0 if none.
RECURSIVE ScriptEnd(_, _)
ScriptEnd(s, i) ==
    IF i > Len(s) THEN 0
    ELSE IF s[i] \in CloseTags THEN i
    ELSE IF s[i] = "\n" THEN 0
    ELSE ScriptEnd(s, i + 1)

\* html.replace(/<script[^>]*>.*?<\/script>/gi, ''), scanning from index i
RECURSIVE StripFrom(_, _)
StripFrom(s, i) ==
    IF i > Len(s) THEN <<>>
    ELSE IF s[i] \in OpenTags /\ ScriptEnd(s, i + 1) > 0
         THEN StripFrom(s, ScriptEnd(s, i + 1) + 1)
         ELSE <<s[i]>> \o StripFrom(s, i + 1)

sanitizeHtml(html) == StripFrom(html, 1)

----------------------------------------------------------------------------
(* Numbers. A number is [nan, v]; v counts thousandths (scale) or tenths   *)
(* (rotation). A numeric string is [k, m, d]: k = "num" is the decimal     *)
(* numeral with digits m and d decimals ("1.50" is m = 150, d = 2),        *)
(* k = "txt" is text that is no number, k = "empty" the empty string.      *)

Num(v) == [nan |-> FALSE, v |-> v]
NaN == [nan |-> TRUE, v |-> 0]

Numeral(m, d) == [k |-> "num", m |-> m, d |-> d]
EmptyStr == [k |-> "empty", m |-> 0, d |-> 0]
Garbage == [k |-> "txt", m |-> 0, d |-> 0]

RECURSIVE Pow10(_)
Pow10(n) == IF n = 0 THEN 1 ELSE 10 * Pow10(n - 1)

\* parseFloat(str), in units of 10^-unit; the numerals of the model have at
\* most `unit` decimals, so no digit is lost.
parseFloat(str, unit) ==
    IF str.k = "num" THEN Num(str.m * Pow10(unit - str.d)) ELSE NaN

\* Math.round on a value counted in tenths: floor(x + 0.5)
MathRound(tenths) == (tenths + 5) \div 10

IMAGE_SCALE_MIN == 500
IMAGE_SCALE_MAX == 2000
IMAGE_ROTATION_MIN == -1800
IMAGE_ROTATION_MAX == 1800

\* Mutant of clamp: the upper bound is not applied
clampBelowOnly(value, min, max) ==
    IF value.nan THEN value
    ELSE IF value.v < min THEN Num(min)
    ELSE value

clamp(value, min, max) ==
    IF value.nan THEN value
    ELSE IF value.v < min THEN Num(min)
    ELSE IF value.v > max THEN Num(max)
    ELSE value

\* parseInt(str, 10): the integer part of a numeral, NaN for anything else
parseInt(str) ==
    IF str.k # "num" THEN NaN
    ELSE IF str.m >= 0 THEN Num(str.m \div Pow10(str.d))
    ELSE Num(-((-str.m) \div Pow10(str.d)))

\* The scales between IMAGE_SCALE_MIN and IMAGE_SCALE_MAX, in thousandths,
\* that end in 5 and whose double lies below the decimal: toFixed(2), which
\* rounds the exact value of the double, rounds them down.
ToFixedDown ==
    {565, 575, 585, 595, 605, 615, 695, 705, 715, 725, 735, 745, 815, 825, 835,
     845, 855, 865, 945, 955, 965, 975, 985, 995, 1005, 1015, 1025, 1035, 1045,
     1055, 1065, 1075, 1085, 1095, 1105, 1115, 1255, 1265, 1275, 1285, 1295,
     1305, 1315, 1325, 1335, 1345, 1355, 1365, 1505, 1515, 1525, 1535, 1545,
     1555, 1565, 1575, 1585, 1595, 1605, 1615, 1755, 1765, 1775, 1785, 1795,
     1805, 1815, 1825, 1835, 1845, 1855, 1865}

\* Those of them whose product by 100 is still below the half as a double:
\* Math.round(scale * 100) rounds them down; for the others the product is
\* the half exactly and is rounded up.
TimesHundredDown == {565, 575, 1005, 1015, 1025, 1035, 1255, 1265, 1275}

\* scale.toFixed(2) of a scale in thousandths
toFixed2(scale) ==
    Numeral(IF scale \in ToFixedDown THEN scale \div 10 ELSE MathRound(scale), 2)

\* String(Math.round(rotation)) of a rotation in tenths
roundedString(rotation) == Numeral(MathRound(rotation), 0)

\* Mutant of parseScale: the parsed scale is not clamped
parseScaleUnclamped(f) ==
    LET value == parseFloat(f.imageScale, 3)
    IN  IF value.nan THEN 1000 ELSE value.v

parseScale(f) ==
    LET value == parseFloat(f.imageScale, 3)
    IN  IF value.nan THEN 1000 ELSE clamp(value, IMAGE_SCALE_MIN, IMAGE_SCALE_MAX).v

parseRotation(f) ==
    LET value == parseFloat(f.imageRotation, 1)
    IN  IF value.nan THEN 0 ELSE clamp(value, IMAGE_ROTATION_MIN, IMAGE_ROTATION_MAX).v

\* Math.round(scale * 100): the scale as a whole percentage
formatScale(scale) ==
    IF scale \in TimesHundredDown THEN scale \div 10 ELSE MathRound(scale)

----------------------------------------------------------------------------
(* The preview renderer *)

\* The placeholder table; each placeholder text is one token.
defaults == [
    title   |-> <<"Titulo do cartao">>,
    summary |-> <<"<p>Utilize o campo Resumo ...</p>">>,
    link    |-> <<"Adicionar link">>,
    badge   |-> <<"Adicionar selo">>,
    date    |-> <<"Definir data">> ]

PlaceholderTokens == {defaults.title[1], defaults.summary[1], defaults.link[1],
                      defaults.badge[1], defaults.date[1]}

Origin == "https://example.org"

\* new URL(value, window.location.origin): "http://[" has no valid host and
\* makes the constructor throw; an absolute URL is serialized with its path
\* ("https://b.org" gets its "/"); "/news/1" resolves against the origin, and
\* so does any other text, as a relative reference; the empty reference is the
\* origin itself.
newURL(value) ==
    IF value = <<>> THEN [throws |-> FALSE, href |-> <<Origin, "/">>]
    ELSE IF value = <<"http://[">> THEN [throws |-> TRUE, href |-> <<>>]
    ELSE IF value = <<"https://b.org">> THEN [throws |-> FALSE, href |-> value \o <<"/">>]
    ELSE IF value[1] = "/news/1" THEN [throws |-> FALSE, href |-> <<Origin>> \o value]
    ELSE [throws |-> FALSE, href |-> <<Origin, "/">> \o value]

\* Mutant of normalizeUrl: no try/catch fallback, the href of an unparsable
\* URL is empty
normalizeUrlNoFallback(value) ==
    IF value = <<>> THEN <<"#">> ELSE newURL(value).href

\* normalizeUrl: '#' for no value, the href of the parsed URL, the value itself
\* when the constructor throws
normalizeUrl(value) ==
    IF value = <<>> THEN <<"#">>
    ELSE IF newURL(value).throws THEN value
    ELSE newURL(value).href

\* An editable text node: what it displays, dataset.placeholder, dataset.syncing
Node(content, placeholder, syncing) ==
    [content |-> content, placeholder |-> placeholder, syncing |-> syncing]

\* style.transform = ''
NoTransform == [on |-> FALSE, scale |-> 0, rotation |-> 0]

\* The preview nodes as the page's markup leaves them, before any render.
BlankPv == [
    title     |-> Node(<<>>, "unset", FALSE),
    summary   |-> Node(<<>>, "unset", FALSE),
    badge     |-> Node(<<>>, "unset", FALSE),
    date      |-> Node(<<>>, "unset", FALSE),
    linkLabel |-> Node(<<>>, "unset", FALSE),
    link      |-> [href |-> <<"#">>, placeholder |-> "unset"],
    image     |-> [src |-> <<>>, alt |-> <<>>, hidden |-> TRUE,
                   transform |-> NoTransform],
    wrapper   |-> [hasImage |-> FALSE],
    empty     |-> [hidden |-> FALSE],
    controls  |-> [hidden |-> TRUE,
                   scale |-> 100, scaleDisabled |-> TRUE, scaleValue |-> 100,
                   rotation |-> 0, rotationDisabled |-> TRUE, rotationValue |-> 0,
                   resetDisabled |-> TRUE] ]

Flag(hasValue) == IF hasValue THEN "false" ELSE "true"

\* Mutant of SummaryContent: the textarea is read even when an editor exists
SummaryContentOfTextarea(f, editor) == Trim(sanitizeHtml(decodeHtml(f.summary)))

\* The summary as the renderer reads it: the editor's data when an instance is
\* registered, the textarea's value otherwise; decoded, sanitized, trimmed.
SummaryContent(f, editor) ==
    LET rawSummaryValue == IF editor.inst THEN editor.data ELSE f.summary
    IN  Trim(sanitizeHtml(decodeHtml(rawSummaryValue)))

\* Mutant of RenderImage: the source of the image is left in place when the
\* URL is absent
RenderImageKeepSrc(p, imageUrl, title, transform, cleared) ==
    IF imageUrl # <<>>
    THEN [p EXCEPT !.image = [src |-> imageUrl, alt |-> OrElse(title, defaults.title),
                              hidden |-> FALSE, transform |-> transform],
                   !.wrapper.hasImage = TRUE,
                   !.empty.hidden = TRUE]
    ELSE [p EXCEPT !.image.hidden = TRUE, !.image.transform = cleared,
                   !.wrapper.hasImage = FALSE,
                   !.empty.hidden = FALSE]

\* The image part of a render, the same in both scripts but for the transform.
RenderImage(p, imageUrl, title, transform, cleared) ==
    IF imageUrl # <<>>
    THEN [p EXCEPT !.image = [src |-> imageUrl, alt |-> OrElse(title, defaults.title),
                              hidden |-> FALSE, transform |-> transform],
                   !.wrapper.hasImage = TRUE,
                   !.empty.hidden = TRUE]
    ELSE [p EXCEPT !.image = [src |-> <<>>, alt |-> p.image.alt, hidden |-> TRUE,
                              transform |-> cleared],
                   !.wrapper.hasImage = FALSE,
                   !.empty.hidden = FALSE]

\* Mutant of syncImageControls: the controls are never disabled
syncImageControlsEnabled(p, scale, rotation, hasImage) ==
    [p EXCEPT !.controls = [hidden |-> ~hasImage,
                            scale |-> formatScale(scale),
                            scaleDisabled |-> FALSE,
                            scaleValue |-> formatScale(scale),
                            rotation |-> MathRound(rotation),
                            rotationDisabled |-> FALSE,
                            rotationValue |-> MathRound(rotation),
                            resetDisabled |-> FALSE]]

\* syncImageControls, the container of the controls being present
syncImageControls(p, scale, rotation, hasImage) ==
    [p EXCEPT !.controls = [hidden |-> ~hasImage,
                            scale |-> formatScale(scale),
                            scaleDisabled |-> ~hasImage,
                            scaleValue |-> formatScale(scale),
                            rotation |-> MathRound(rotation),
                            rotationDisabled |-> ~hasImage,
                            rotationValue |-> MathRound(rotation),
                            resetDisabled |-> ~hasImage]]

\* updatePreview of the admin form: returns the fields (scale and rotation are
\* normalized in place) and the preview nodes after the render.
updatePreview(f, image, p, editor) ==
    LET title == Trim(f.title)
        badge == Trim(f.badge)
        date == Trim(f.displayDate)
        linkLabel == Trim(f.linkLabel)
        linkUrl == Trim(f.linkUrl)
        imageUrl == Trim(image)
        scale == parseScale(f)
        rotation == parseRotation(f)
        hasImage == imageUrl # <<>>
        content == SummaryContent(f, editor)
        p1 == [p EXCEPT
                 !.title.content = OrElse(title, defaults.title),
                 !.title.placeholder = Flag(title # <<>>),
                 !.summary.content = OrElse(content, defaults.summary),
                 !.summary.placeholder = Flag(content # <<>>),
                 !.badge.content = OrElse(badge, defaults.badge),
                 !.badge.placeholder = Flag(badge # <<>>),
                 !.date.content = OrElse(date, defaults.date),
                 !.date.placeholder = Flag(date # <<>>),
                 !.linkLabel.content = OrElse(linkLabel, defaults.link),
                 !.link = [href |-> IF linkLabel # <<>> THEN normalizeUrl(linkUrl) ELSE <<"#">>,
                           placeholder |-> Flag(linkLabel # <<>>)]]
        p2 == RenderImage(p1, imageUrl, title,
                          [on |-> TRUE, scale |-> scale, rotation |-> rotation], NoTransform)
    IN  [fields |-> [f EXCEPT !.imageScale = toFixed2(scale),
                              !.imageRotation = roundedString(rotation)],
         pv |-> syncImageControls(p2, scale, rotation, hasImage)]

\* setEditableContent without the document.activeElement guard: the node is
\* always overwritten
setEditableContentOverwriting(element, value, placeholder, isActive) ==
    Node(IF value # <<>> THEN value ELSE placeholder, Flag(value # <<>>), FALSE)

\* Mutant of setEditableContent: dataset.syncing is not deleted
setEditableContentKeepsFlag(element, value, placeholder, isActive) ==
    LET hasValue == value # <<>>
        displayValue == IF hasValue THEN value ELSE placeholder
        isSyncing == element.syncing
    IN  Node(IF ~isActive \/ isSyncing THEN displayValue ELSE element.content,
             Flag(hasValue),
             isSyncing)

\* setEditableContent of js.js on one node
setEditableContent(element, value, placeholder, isActive) ==
    LET hasValue == value # <<>>
        displayValue == IF hasValue THEN value ELSE placeholder
        isSyncing == element.syncing
    IN  Node(IF ~isActive \/ isSyncing THEN displayValue ELSE element.content,
             Flag(hasValue),
             FALSE)

\* updatePreview of js.js: the fields are left alone; `active` names the
\* editable node that has the focus ("none" when no preview node has it).
updatePreviewSite(f, image, p, editor, active) ==
    LET title == Trim(f.title)
        badge == Trim(f.badge)
        date == Trim(f.displayDate)
        linkLabel == Trim(f.linkLabel)
        linkUrl == Trim(f.linkUrl)
        imageUrl == Trim(image)
        content == SummaryContent(f, editor)
        p1 == [p EXCEPT
                 !.title = setEditableContent(p.title, title, defaults.title, active = "title"),
                 !.summary = setEditableContent(p.summary, content, defaults.summary,
                                                active = "summary"),
                 !.badge = setEditableContent(p.badge, badge, defaults.badge, active = "badge"),
                 !.date = setEditableContent(p.date, date, defaults.date, active = "date"),
                 !.linkLabel = setEditableContent(p.linkLabel, linkLabel, defaults.link,
                                                  active = "linkLabel"),
                 !.link = [href |-> IF linkLabel # <<>> THEN normalizeUrl(linkUrl) ELSE <<"#">>,
                           placeholder |-> Flag(linkLabel # <<>>)]]
    IN  [fields |-> f,
         pv |-> RenderImage(p1, imageUrl, title, p.image.transform, p.image.transform)]

\* The render of a page that has every control and every preview element
RenderFull(pg, f, image, p, editor, active) ==
    IF pg = "admin" THEN updatePreview(f, image, p, editor)
    ELSE updatePreviewSite(f, image, p, editor, active)

\* The names of the form controls (the keys of `fields` of ready()) and of the
\* preview elements (the constants of updatePreviewFactory)
FormFields ==
    {"title", "summary", "badge", "displayDate", "linkLabel", "linkUrl",
     "imageUrl", "imageScale", "imageRotation"}
PreviewElements ==
    {"titleEl", "summaryEl", "badgeEl", "dateEl", "linkEl", "linkLabelEl",
     "imageWrapper", "imageEl", "imagePlaceholder", "imageControls",
     "scaleControl", "rotationControl", "scaleValueEl", "rotationValueEl",
     "resetControl"}

\* The controls and elements that the code dereferences without testing that
\* they exist: none. Every reader is `fields.x && fields.x.value`, every writer
\* sits under `if (el)`, every listener is bound under `if (control && field)`.
Unguarded == {}

\* The values the render reads: `fields.x && fields.x.value.trim()` is falsy
\* for an absent control, parseFloat is not called for an absent one
Seen(f) ==
    [k \in DOMAIN f |->
        IF k \notin absent THEN f[k]
        ELSE IF k \in {"imageScale", "imageRotation"} THEN EmptyStr ELSE <<>>]

\* Mutant of Reached: no guard of the render lets it through
ReachedNever(n) == FALSE

\* The guards of the render: whether the statements that write part n of the
\* preview are reached
Reached(n) ==
    CASE n = "title" -> "titleEl" \notin absent
      [] n = "summary" -> "summaryEl" \notin absent
      [] n = "badge" -> "badgeEl" \notin absent
      [] n = "date" -> "dateEl" \notin absent
      [] n \in {"link", "linkLabel"} -> {"linkEl", "linkLabelEl"} \cap absent = {}
      [] n \in {"image", "wrapper"} -> {"imageWrapper", "imageEl"} \cap absent = {}
      [] n = "empty" -> {"imageWrapper", "imageEl", "imagePlaceholder"} \cap absent = {}
      [] n = "controls" -> "imageControls" \notin absent

\* syncImageControls: each control is written under its own guard
WrittenControls(c, d) ==
    [hidden |-> d.hidden,
     scale |-> IF "scaleControl" \in absent THEN c.scale ELSE d.scale,
     scaleDisabled |-> IF "scaleControl" \in absent THEN c.scaleDisabled ELSE d.scaleDisabled,
     scaleValue |-> IF "scaleValueEl" \in absent THEN c.scaleValue ELSE d.scaleValue,
     rotation |-> IF "rotationControl" \in absent THEN c.rotation ELSE d.rotation,
     rotationDisabled |->
         IF "rotationControl" \in absent THEN c.rotationDisabled ELSE d.rotationDisabled,
     rotationValue |-> IF "rotationValueEl" \in absent THEN c.rotationValue ELSE d.rotationValue,
     resetDisabled |-> IF "resetControl" \in absent THEN c.resetDisabled ELSE d.resetDisabled]

\* The preview after a render that found p and would leave q on a page with
\* every element: the parts whose guard fails stay as they were
Written(p, q) ==
    [n \in DOMAIN p |->
        IF ~Reached(n) THEN p[n]
        ELSE IF n = "controls" THEN WrittenControls(p[n], q[n])
        ELSE q[n]]

\* The fields and the preview after a render that found f and p and would
\* leave r on a page with every control and element
Partly(f, p, r) ==
    [fields |-> [k \in DOMAIN f |-> IF k \in absent THEN f[k] ELSE r.fields[k]],
     pv |-> Written(p, r.pv)]

\* The render on a page that lacks some controls or elements
RenderPartly(pg, f, image, p, editor, active) ==
    CHOOSE s \in {Partly(f, p, r) :
                    r \in {RenderFull(pg, Seen(f),
                                      IF "imageUrl" \in absent THEN <<>> ELSE image,
                                      p,
                                      IF "summary" \in absent
                                      THEN [editor EXCEPT !.inst = FALSE] ELSE editor,
                                      active)}} : TRUE

\* The render the page's script binds to its fields and notifications, on the
\* page as it is.
Render(pg, f, image, p, editor, active) ==
    IF absent = {} THEN RenderFull(pg, f, image, p, editor, active)
    ELSE RenderPartly(pg, f, image, p, editor, active)

----------------------------------------------------------------------------
(* The upload controller *)

Inputs == {"main", "late"}    \* "main" is fields.imageUrl, the one the preview shows
Files == {"f1", "f2"}
Payloads == {<<>>, <<"f1">>, <<"f2", "f1">>}

MsgUnavailable == "Envio direto de imagens indisponivel."
MsgSuccess == "Imagem enviada com sucesso."
MsgGeneric == "Nao foi possivel enviar a imagem. Tente novamente."
MsgConnection == "Erro de conexao ao enviar a imagem."
MsgServer == "mensagem do servidor"

NoFeedback == [text |-> "", status |-> ""]

getUploadEndpoint(field, global) ==
    IF field.endpointAttr # "" THEN field.endpointAttr ELSE global

showFeedback(field, status, message) ==
    IF message = "" THEN [field EXCEPT !.feedback = NoFeedback]
    ELSE [field EXCEPT !.feedback = [text |-> message, status |-> status]]

\* Mutant of setupImageUpload: the missing endpoint is reported but the
\* listeners are attached all the same
setupImageUploadNoReturn(field, global) ==
    IF ~field.present \/ field.bound THEN field
    ELSE IF getUploadEndpoint(field, global) = ""
         THEN [showFeedback(field, "error", MsgUnavailable) EXCEPT
                 !.bound = TRUE, !.handlers = @ + 1]
         ELSE [field EXCEPT !.bound = TRUE,
                            !.handlers = @ + 1,
                            !.endpoint = getUploadEndpoint(field, global)]

\* Mutant of setupImageUpload: the bound flag of the input is not looked at
setupImageUploadUnflagged(field, global) ==
    IF ~field.present THEN field
    ELSE IF getUploadEndpoint(field, global) = ""
         THEN [showFeedback(field, "error", MsgUnavailable) EXCEPT !.bound = TRUE]
         ELSE [field EXCEPT !.bound = TRUE,
                            !.handlers = @ + 1,
                            !.endpoint = getUploadEndpoint(field, global)]

\* setupImageUpload up to the point where the listeners are attached: an input
\* already bound is left alone; without an endpoint the failure is reported and
\* no listener is attached.
setupImageUpload(field, global) ==
    IF ~field.present \/ field.bound THEN field
    ELSE IF getUploadEndpoint(field, global) = ""
         THEN [showFeedback(field, "error", MsgUnavailable) EXCEPT !.bound = TRUE]
         ELSE [field EXCEPT !.bound = TRUE,
                            !.handlers = @ + 1,
                            !.endpoint = getUploadEndpoint(field, global)]

\* bindAllImageInputs
bindAllImageInputs(ins, global) ==
    [i \in Inputs |-> setupImageUpload(ins[i], global)]

Request(i, file, field) ==
    [inp |-> i, file |-> file, endpoint |-> field.endpoint, stage |-> "pending",
     before |-> field.value]

\* Mutant of uploadFile: the feedback of the previous upload is left in place
uploadFileKeepsFeedback(field) == [field EXCEPT !.uploading = TRUE]

\* uploadFile, as far as the call of fetch: feedback cleared, busy state applied.
uploadFile(field) == [showFeedback(field, "", "") EXCEPT !.uploading = TRUE]

\* What a response is: the fetch rejected (net = FALSE), or a status and a
\* body; a body that is no JSON reads as the empty object. The url of a body
\* is absent or the address the server stored the request's file at.
NetworkError ==
    [net |-> FALSE, ok |-> FALSE, parsed |-> FALSE, uploaded |-> "none",
     url |-> <<>>, err |-> ""]

Outcomes ==
    {NetworkError}
    \cup {[net |-> TRUE, ok |-> ok, parsed |-> FALSE, uploaded |-> "none",
           url |-> <<>>, err |-> ""] : ok \in BOOLEAN}
    \cup [net : {TRUE}, ok : BOOLEAN, parsed : {TRUE},
          uploaded : {"1", "'1'"},
          url : {<<>>, <<"stored">>},
          err : {"", MsgServer}]

StoredUrl(file) == <<"https://cdn/" \o file>>

Response(req, o) == [o EXCEPT !.url = IF @ = <<>> THEN <<>> ELSE StoredUrl(req.file)]

\* Mutant of Accepted: the flag compared with == instead of ===
AcceptedLoosely(o) == o.net /\ o.ok /\ o.uploaded \in {"1", "'1'"} /\ o.url # <<>>

\* result.ok && data.uploaded === 1 && data.url
Accepted(o) == o.net /\ o.ok /\ o.uploaded = "1" /\ o.url # <<>>

\* Mutant of onResponse: the url of a refused body is written all the same
onResponseWritesAlways(field, o) ==
    IF ~o.net
    THEN [field |-> showFeedback(field, "error", MsgConnection), notes |-> <<>>]
    ELSE IF Accepted(o)
    THEN [field |-> showFeedback([field EXCEPT !.value = o.url], "success", MsgSuccess),
          notes |-> <<"input", "change">>]
    ELSE [field |-> showFeedback([field EXCEPT !.value = o.url], "error",
                                 IF o.err # "" THEN o.err ELSE MsgGeneric),
          notes |-> <<>>]

\* Mutant of onResponse: a response that finds an earlier success shown is
\* dropped
onResponseFirstWins(field, o) ==
    IF ~o.net
    THEN [field |-> showFeedback(field, "error", MsgConnection), notes |-> <<>>]
    ELSE IF Accepted(o)
    THEN IF field.feedback.status = "success"
         THEN [field |-> field, notes |-> <<>>]
         ELSE [field |-> showFeedback([field EXCEPT !.value = o.url], "success", MsgSuccess),
               notes |-> <<"input", "change">>]
    ELSE [field |-> showFeedback(field, "error", IF o.err # "" THEN o.err ELSE MsgGeneric),
          notes |-> <<>>]

\* Mutant of onResponse: the message of the body is ignored
onResponseGenericOnly(field, o) ==
    IF ~o.net
    THEN [field |-> showFeedback(field, "error", MsgConnection), notes |-> <<>>]
    ELSE IF Accepted(o)
    THEN [field |-> showFeedback([field EXCEPT !.value = o.url], "success", MsgSuccess),
          notes |-> <<"input", "change">>]
    ELSE [field |-> showFeedback(field, "error", MsgGeneric), notes |-> <<>>]

\* The second .then of uploadFile and its .catch, on the input's state.
\* Returns the input and the notifications dispatched on it.
onResponse(field, o) ==
    IF ~o.net
    THEN [field |-> showFeedback(field, "error", MsgConnection), notes |-> <<>>]
    ELSE IF Accepted(o)
    THEN [field |-> showFeedback([field EXCEPT !.value = o.url], "success", MsgSuccess),
          notes |-> <<"input", "change">>]
    ELSE [field |-> showFeedback(field, "error", IF o.err # "" THEN o.err ELSE MsgGeneric),
          notes |-> <<>>]

\* Mutant of onFinally: the busy class is left in place
onFinallyKeepBusy(field) == field

\* The .finally of uploadFile
onFinally(field) == [field EXCEPT !.uploading = FALSE]

----------------------------------------------------------------------------
(* State after the script's ready() callback *)

\* The editor instance of the summary control: whether one is registered, the
\* data getData() returns, whether the renderer is subscribed to it, and the
\* notifications it has queued.
NoEditor == [inst |-> FALSE, data |-> <<>>, subscribed |-> FALSE, pending |-> 0]

\* bindCkEditor(handler, textarea): subscribes when an instance exists
bindCkEditor(editor) == [editor EXCEPT !.subscribed = editor.inst]

\* The #documents container of the inline formset: whether the page has it,
\* whether it lies in a fieldset, whether the fieldset has the
\* [data-section-item-documents] wrapper, whether the container's group lies
\* in that wrapper, dataset.sectionItemDocumentsBound, and whether the last
\* scan (of ready() or of the observer) changed the document
NoDocs ==
    [present |-> FALSE, fieldset |-> FALSE, wrapper |-> FALSE, inWrapper |-> FALSE,
     bound |-> FALSE, changed |-> FALSE]

\* Mutant of setupDocumentsInlineLayout: the bound flag is not looked at
setupDocumentsInlineLayoutUnflagged(d) ==
    IF ~d.present \/ ~d.fieldset THEN [d EXCEPT !.changed = FALSE]
    ELSE [d EXCEPT !.wrapper = TRUE, !.inWrapper = TRUE, !.bound = TRUE, !.changed = TRUE]

\* setupDocumentsInlineLayout: the wrapper is created when the fieldset has
\* none, the container's group is appended to it, the container is flagged
setupDocumentsInlineLayout(d) ==
    IF ~d.present \/ d.bound \/ ~d.fieldset THEN [d EXCEPT !.changed = FALSE]
    ELSE [d EXCEPT !.wrapper = TRUE, !.inWrapper = TRUE, !.bound = TRUE, !.changed = TRUE]

NoInput ==
    [present |-> FALSE, bound |-> FALSE, handlers |-> 0, endpointAttr |-> "",
     endpoint |-> "", value |-> <<>>, feedback |-> NoFeedback,
     uploading |-> FALSE, dragover |-> FALSE, pointer |-> "outside", left |-> ""]

\* An image input as the markup gives it
MarkupInput(endpointAttr, value) ==
    [NoInput EXCEPT !.present = TRUE, !.endpointAttr = endpointAttr, !.value = value]

EmptyFields ==
    [title |-> <<>>, summary |-> <<>>, badge |-> <<>>, displayDate |-> <<>>,
     linkLabel |-> <<>>, linkUrl |-> <<>>,
     imageScale |-> EmptyStr, imageRotation |-> EmptyStr]

\* The event that ran last: its kind, the input it was on, the number of files
\* it carried, the request it belongs to and, for a response, whether it had a
\* success status, the uploaded flag 1 and a url; and whether it ended with
\* an uncaught error.
NoLast ==
    [op |-> "ready", inp |-> "main", files |-> 0, req |-> 0, okFlagUrl |-> FALSE,
     threw |-> FALSE, control |-> "none"]

\* ready(): default scale and rotation (admin form only), bind the image
\* inputs, subscribe to the editor when it exists, render once.
readyMarkup(pg, f0, ins0, global, editor, p0) ==
    LET f1 == IF pg = "admin"
              THEN [f0 EXCEPT
                      !.imageScale = IF @ = EmptyStr THEN Numeral(100, 2) ELSE @,
                      !.imageRotation = IF @ = EmptyStr THEN Numeral(0, 0) ELSE @]
              ELSE f0
        ins1 == bindAllImageInputs(ins0, global)
        ed == bindCkEditor(editor)
        r == Render(pg, f1, ins1["main"].value, p0, ed, "none")
    IN  [fields |-> r.fields, inputs |-> ins1, pv |-> r.pv, ck |-> ed]

\* ready() on a page whose markup leaves the preview nodes blank
ready(pg, f0, ins0, global, editor) == readyMarkup(pg, f0, ins0, global, editor, BlankPv)

\* Mutant of RenderTimes: the renderer is not bound to the field
RenderNever(n, pg, f, image, p, editor, active) == [fields |-> f, pv |-> p]

\* n renders in a row: one per notification a bound field receives
RECURSIVE RenderTimes(_, _, _, _, _, _, _)
RenderTimes(n, pg, f, image, p, editor, active) ==
    IF n = 0 THEN [fields |-> f, pv |-> p]
    ELSE LET r == Render(pg, f, image, p, editor, active)
         IN  RenderTimes(n - 1, pg, r.fields, image, r.pv, editor, active)

----------------------------------------------------------------------------
(* Events of the upload controller *)

\* No promise callback is queued: event handlers run only then.
Idle == \A k \in 1..Len(reqs) : reqs[k].stage # "settled"

\* Mutant of firstFile: the last file of the payload is taken
lastFile(files) == files[Len(files)]

\* files[0]
firstFile(files) == files[1]

\* Mutant of StartUploads: a new upload aborts the ones in flight on the input
StartUploadsAborting(i, file) ==
    /\ Len(reqs) + inputs[i].handlers <= MaxUploads
    /\ reqs' = [k \in 1..Len(reqs) |->
                  IF reqs[k].inp = i /\ reqs[k].stage = "pending"
                  THEN [reqs[k] EXCEPT !.stage = "done"] ELSE reqs[k]]
               \o [j \in 1..inputs[i].handlers |-> Request(i, file, inputs[i])]

\* The listeners of input i call uploadFile(file): once per set of listeners.
StartUploads(i, file) ==
    /\ Len(reqs) + inputs[i].handlers <= MaxUploads
    /\ reqs' = reqs \o [j \in 1..inputs[i].handlers |-> Request(i, file, inputs[i])]

\* paste on the image input, the clipboard carrying `payload`
Paste(i, payload) ==
    /\ Idle /\ inputs[i].present
    /\ IF inputs[i].handlers > 0 /\ payload # <<>>
       THEN /\ StartUploads(i, firstFile(payload))
            /\ inputs' = [inputs EXCEPT ![i] = uploadFile(@)]
       ELSE UNCHANGED <<inputs, reqs>>
    /\ notes' = <<>>
    /\ last' = [NoLast EXCEPT !.op = "paste", !.inp = i, !.files = Len(payload)]
    /\ UNCHANGED <<absent, docs, page, fields, pv, focus, ck, globalEndpoint>>

\* drop on the upload wrapper
Drop(i, payload) ==
    /\ Idle /\ inputs[i].present
    /\ IF inputs[i].handlers > 0
       THEN IF payload # <<>>
            THEN /\ StartUploads(i, firstFile(payload))
                 /\ inputs' = [inputs EXCEPT ![i] = [uploadFile(@) EXCEPT !.dragover = FALSE]]
            ELSE /\ inputs' = [inputs EXCEPT ![i].dragover = FALSE]
                 /\ UNCHANGED reqs
       ELSE UNCHANGED <<inputs, reqs>>
    /\ notes' = <<>>
    /\ last' = [NoLast EXCEPT !.op = "drop", !.inp = i, !.files = Len(payload)]
    /\ UNCHANGED <<absent, docs, page, fields, pv, focus, ck, globalEndpoint>>

\* change on the hidden file input, which exists once the listeners do
FilePick(i, payload) ==
    /\ Idle /\ inputs[i].present /\ inputs[i].handlers > 0
    /\ IF payload # <<>>
       THEN /\ StartUploads(i, firstFile(payload))
            /\ inputs' = [inputs EXCEPT ![i] = uploadFile(@)]
       ELSE UNCHANGED <<inputs, reqs>>
    /\ notes' = <<>>
    /\ last' = [NoLast EXCEPT !.op = "pick", !.inp = i, !.files = Len(payload)]
    /\ UNCHANGED <<absent, docs, page, fields, pv, focus, ck, globalEndpoint>>

ImageTyped == {<<>>, <<"u0">>}

\* the user edits the image URL control: its input event renders
TypeImage(i, v) ==
    /\ Idle /\ inputs[i].present /\ inputs[i].value # v
    /\ inputs' = [inputs EXCEPT ![i].value = v]
    /\ LET r == RenderTimes(IF i = "main" THEN 1 ELSE 0,
                            page, fields, inputs'["main"].value, pv, ck, focus)
       IN  fields' = r.fields /\ pv' = r.pv
    /\ notes' = <<>>
    /\ last' = [NoLast EXCEPT !.op = "type", !.inp = i]
    /\ UNCHANGED <<absent, docs, page, focus, ck, globalEndpoint, reqs>>

\* The request settles: the response handlers of uploadFile run, and with
\* them the listeners of the notifications they dispatch.
Settle(k, o) ==
    /\ Idle /\ k \in 1..Len(reqs) /\ reqs[k].stage = "pending"
    /\ LET i == reqs[k].inp
           h == onResponse(inputs[i], Response(reqs[k], o))
           r == RenderTimes(IF i = "main" THEN Len(h.notes) ELSE 0,
                            page, fields, IF i = "main" THEN h.field.value
                                          ELSE inputs["main"].value,
                            pv, ck, focus)
       IN  /\ inputs' = [inputs EXCEPT ![i] = h.field]
           /\ notes' = h.notes
           /\ fields' = r.fields
           /\ pv' = r.pv
    /\ reqs' = [reqs EXCEPT ![k].stage = "settled"]
    /\ last' = [NoLast EXCEPT !.op = "settle", !.inp = reqs[k].inp, !.req = k,
                              !.okFlagUrl = o.net /\ o.ok /\ o.uploaded = "1" /\ o.url # <<>>]
    /\ UNCHANGED <<absent, docs, page, focus, ck, globalEndpoint>>

\* .finally of the settled request
Finally(k) ==
    /\ k \in 1..Len(reqs) /\ reqs[k].stage = "settled"
    /\ inputs' = [inputs EXCEPT ![reqs[k].inp] = onFinally(@)]
    /\ reqs' = [reqs EXCEPT ![k].stage = "done", ![k].before = <<>>]
    /\ notes' = <<>>
    /\ last' = [NoLast EXCEPT !.op = "finally", !.inp = reqs[k].inp, !.req = k]
    /\ UNCHANGED <<absent, docs, page, fields, pv, focus, ck, globalEndpoint>>

InitUpload ==
    /\ absent = {}
    /\ docs = NoDocs
    /\ page = "admin"
    /\ focus = "none"
    /\ reqs = <<>>
    /\ notes = <<>>
    /\ last = NoLast
    /\ \E cfg \in {<<"", "">>, <<"", "/upload">>, <<"/card-upload", "/upload">>} :
         LET st == ready(page, [EmptyFields EXCEPT !.title = <<"a">>],
                         [i \in Inputs |-> IF i = "main" THEN MarkupInput(cfg[1], <<>>)
                                           ELSE NoInput],
                         cfg[2], NoEditor)
         IN  /\ globalEndpoint = cfg[2]
             /\ ck = st.ck
             /\ fields = st.fields
             /\ inputs = st.inputs
             /\ pv = st.pv

NextUpload ==
    \/ \E i \in Inputs, payload \in Payloads : Paste(i, payload)
    \/ \E i \in Inputs, payload \in Payloads : Drop(i, payload)
    \/ \E i \in Inputs, payload \in Payloads : FilePick(i, payload)
    \/ \E i \in Inputs, v \in ImageTyped : TypeImage(i, v)
    \/ \E k \in 1..MaxUploads, o \in Outcomes : Settle(k, o)
    \/ \E k \in 1..MaxUploads : Finally(k)

\* The promise callbacks queued by a settled request always run.
SpecUpload ==
    InitUpload /\ [][NextUpload]_vars /\ WF_vars(\E k \in 1..MaxUploads : Finally(k))

----------------------------------------------------------------------------
(* The editable preview of js.js: reverse sync *)

Nodes == {"title", "summary", "badge", "date", "linkLabel"}

\* the configs of bindPreviewEditors: the field and the placeholder of a node
FieldOf(n) == IF n = "date" THEN "displayDate" ELSE n
PlaceholderOf(n) == IF n = "linkLabel" THEN defaults.link ELSE defaults[n]
IsHtml(n) == n = "summary"
Multiline(n) == n = "summary"

\* value.replace(/ /g, ' ')
Cleaned(value) == [i \in 1..Len(value) |-> IF value[i] = "nbsp" THEN " " ELSE value[i]]

\* Mutant of Collapse: the runs of whitespace are left as they are
CollapseNone(s) == s

\* cleaned.replace(/\s+/g, ' ')
RECURSIVE Collapse(_)
Collapse(s) ==
    IF s = <<>> THEN <<>>
    ELSE IF Head(s) \in WhiteSpace
         THEN <<" ">> \o Collapse(TrimStart(Tail(s)))
         ELSE <<Head(s)>> \o Collapse(Tail(s))

normaliseValue(value, n) ==
    IF IsHtml(n) THEN Trim(sanitizeHtml(Cleaned(value)))
    ELSE IF Multiline(n) THEN Trim(Cleaned(value))
    ELSE Trim(Collapse(Cleaned(value)))

\* element.textContent of markup: the tags carry no text
Tags == {"<script>", "</script>", "<br>"}
TextContent(html) == SelectSeq(html, LAMBDA t : t \notin Tags)

\* editor.setData(html): the data is replaced, and the editor announces it to
\* its subscribers later
setData(editor, html) ==
    [editor EXCEPT !.data = html,
                   !.pending = IF editor.subscribed THEN @ + 1 ELSE @]

\* bindEditablePlaceholder: the focus listener
onFocus(element) ==
    IF element.placeholder = "true"
    THEN [element EXCEPT !.content = <<>>, !.placeholder = "false"]
    ELSE element

\* Mutant of syncFieldFromPreview: with an editor, setData is called whether
\* the content differs from the editor's data or not
syncFieldFromPreviewAlwaysSets(f, image, p, editor, active, n) ==
    LET newValue == normaliseValue(p[n].content, n)
        field == FieldOf(n)
        currentValue == IF IsHtml(n) THEN Trim(sanitizeHtml(f[field])) ELSE f[field]
        notes_ == IF currentValue # newValue THEN <<"input", "change">> ELSE <<"input">>
        f2 == IF currentValue # newValue THEN [f EXCEPT ![field] = newValue] ELSE f
    IN  IF IsHtml(n) /\ editor.inst
        THEN LET ed2 == setData(editor, newValue)
                 r == Render("site", f, image, [p EXCEPT ![n].syncing = TRUE], ed2, active)
             IN  [fields |-> r.fields, pv |-> r.pv, ck |-> ed2, notes |-> <<>>]
        ELSE LET r == RenderTimes(Len(notes_), "site", f2, image, p, editor, active)
             IN  [fields |-> r.fields, pv |-> r.pv, ck |-> editor, notes |-> notes_]

\* syncFieldFromPreview of node n, with the listeners of the notifications it
\* dispatches on the field (updatePreview, bound by bindInput). Returns the
\* fields, the preview, the editor and the notifications dispatched.
syncFieldFromPreview(f, image, p, editor, active, n) ==
    LET newValue == normaliseValue(p[n].content, n)
        field == FieldOf(n)
        currentValue == IF IsHtml(n) THEN Trim(sanitizeHtml(f[field])) ELSE f[field]
        notes_ == IF currentValue # newValue THEN <<"input", "change">> ELSE <<"input">>
        f2 == IF currentValue # newValue THEN [f EXCEPT ![field] = newValue] ELSE f
    IN  IF IsHtml(n) /\ editor.inst
        THEN LET ed2 == IF Trim(sanitizeHtml(editor.data)) # newValue
                        THEN setData(editor, newValue) ELSE editor
                 r == Render("site", f, image, [p EXCEPT ![n].syncing = TRUE], ed2, active)
             IN  [fields |-> r.fields, pv |-> r.pv, ck |-> ed2, notes |-> <<>>]
        ELSE LET r == RenderTimes(Len(notes_), "site", f2, image, p, editor, active)
             IN  [fields |-> r.fields, pv |-> r.pv, ck |-> editor, notes |-> notes_]

\* the blur listener of node n, after its syncFieldFromPreview: the empty node
\* gets its placeholder flag back
restorePlaceholder(p, n) ==
    IF IsHtml(n)
    THEN IF Trim(TextContent(p[n].content)) = <<>>
         THEN [p EXCEPT ![n].placeholder = "true", ![n].content = <<>>]
         ELSE p
    ELSE IF p[n].content = <<>>
         THEN [p EXCEPT ![n].placeholder = "true"]
         ELSE p

\* Mutant of afterSync: the blur listener ends without its updatePreview()
afterSyncWithoutRender(s1, image, n) ==
    [s1 EXCEPT !.pv = restorePlaceholder(s1.pv, n)]

\* the blur listener of node n, from the result s1 of its syncFieldFromPreview
\* on: the placeholder flag, then updatePreview
afterSync(s1, image, n) ==
    [s1 EXCEPT !.pv = Render("site", s1.fields, image,
                             restorePlaceholder(s1.pv, n), s1.ck, "none").pv]

\* the blur listener of node n; document.activeElement is no longer the node
onBlur(f, image, p, editor, n) ==
    afterSync(syncFieldFromPreview(f, image, p, editor, "none", n), image, n)

----------------------------------------------------------------------------
(* Events of the preview synchronizer *)

\* What the user types into a control or a preview node
Typed(name) ==
    CASE name = "title" -> {<<>>, <<" ">>, <<" ", "a">>}
      [] name = "badge" -> {<<>>, <<"b">>}
      [] name \in {"date", "displayDate"} -> {<<>>, <<"d", " ">>}
      [] name = "linkLabel" -> {<<>>, <<"l">>}
      [] name = "linkUrl" -> {<<>>, <<"/news/1">>}
      [] name = "summary" -> {<<>>, <<"s">>}

TextFields == {"title", "summary", "badge", "displayDate", "linkLabel", "linkUrl"}

ScaleTyped == {Numeral(1234, 3), Numeral(3, 0), Garbage}
RotationTyped == {Numeral(106, 1), Numeral(-400, 0), EmptyStr}

HasPlaceholder(s) == \E i \in 1..Len(s) : s[i] \in PlaceholderTokens

\* The content of a node after the user edited it: a text typed afresh, or,
\* when the node displays a placeholder, that content and one more character.
Edits(n, old) ==
    Typed(n) \cup (IF HasPlaceholder(old) /\ Len(old) < MaxText THEN {old \o <<"x">>} ELSE {})

Event(op, name) ==
    [NoLast EXCEPT !.op = op, !.inp = name, !.threw = absent \cap Unguarded # {}]

\* input on a text control of the form (the user types in it)
FieldInput(name, v) ==
    /\ name \notin absent
    /\ focus = "none" /\ fields[name] # v
    /\ name = "summary" => ~ck.inst
    /\ LET r == Render(page, [fields EXCEPT ![name] = v], inputs["main"].value, pv, ck, focus)
       IN  fields' = r.fields /\ pv' = r.pv
    /\ notes' = <<>>
    /\ last' = Event("input", "main")
    /\ UNCHANGED <<absent, docs, page, inputs, focus, ck, globalEndpoint, reqs>>

\* input on the scale or rotation control of the form
NumberInput(name, v) ==
    /\ name \notin absent
    /\ page = "admin" /\ focus = "none" /\ fields[name] # v
    /\ LET r == Render(page, [fields EXCEPT ![name] = v], inputs["main"].value, pv, ck, focus)
       IN  fields' = r.fields /\ pv' = r.pv
    /\ notes' = <<>>
    /\ last' = Event("input", "main")
    /\ UNCHANGED <<absent, docs, page, inputs, focus, ck, globalEndpoint, reqs>>

\* change on a control, fired when the user leaves it after an input: the
\* same listener runs again, the value being what the input left
FieldChange ==
    /\ focus = "none" /\ last.op = "input"
    /\ LET r == Render(page, fields, inputs["main"].value, pv, ck, focus)
       IN  fields' = r.fields /\ pv' = r.pv
    /\ notes' = <<>>
    /\ last' = Event("change", "main")
    /\ UNCHANGED <<absent, docs, page, inputs, focus, ck, globalEndpoint, reqs>>

\* configs.forEach of bindPreviewEditors: node n gets its listeners when both
\* its element and its field exist
ElementOf(n) ==
    CASE n = "title" -> "titleEl"
      [] n = "summary" -> "summaryEl"
      [] n = "badge" -> "badgeEl"
      [] n = "date" -> "dateEl"
      [] n = "linkLabel" -> "linkLabelEl"
Bound(n) == ElementOf(n) \notin absent /\ FieldOf(n) \notin absent

\* focus on an editable preview node
FocusNode(n) ==
    /\ Bound(n)
    /\ page = "site" /\ focus = "none"
    /\ pv' = [pv EXCEPT ![n] = onFocus(@)]
    /\ focus' = n
    /\ notes' = <<>>
    /\ last' = Event("focus", n)
    /\ UNCHANGED <<absent, docs, page, fields, inputs, ck, globalEndpoint, reqs>>

\* input on the focused preview node: the user edited its content
InputNode(n, c) ==
    /\ page = "site" /\ focus = n
    /\ ck.pending < MaxPending
    /\ LET s1 == syncFieldFromPreview(fields, inputs["main"].value,
                                      [pv EXCEPT ![n].content = c], ck, focus, n)
       IN  /\ fields' = s1.fields
           /\ pv' = s1.pv
           /\ ck' = s1.ck
           /\ notes' = s1.notes
    /\ last' = Event("edit", n)
    /\ UNCHANGED <<absent, docs, page, inputs, focus, globalEndpoint, reqs>>

\* blur of the focused preview node
BlurNode(n) ==
    /\ page = "site" /\ focus = n
    /\ ck.pending < MaxPending
    /\ LET s1 == onBlur(fields, inputs["main"].value, pv, ck, n)
       IN  /\ fields' = s1.fields
           /\ pv' = s1.pv
           /\ ck' = s1.ck
           /\ notes' = s1.notes
    /\ focus' = "none"
    /\ last' = Event("blur", n)
    /\ UNCHANGED <<absent, docs, page, inputs, globalEndpoint, reqs>>

\* The page marks the nodes that accept edits with data-preview-editable
Editable(n) == n \in Nodes

\* The [data-preview-trigger] element a preview node lies in, by its action
TriggerOf(n) == IF n = "linkLabel" THEN "link" ELSE n

\* Mutant of getActionTarget: the trigger is looked up for editable nodes too
getActionTargetOfAny(n) == TriggerOf(n)

\* getActionTarget(event.target) of bindPreviewInteractions, the target being
\* node n: the action of the enclosing trigger, none inside an editable node
getActionTarget(n) == IF Editable(n) THEN "none" ELSE TriggerOf(n)

\* The line break that Enter inserts where the key is left to the browser
LineBreak == <<"<br>">>

\* keydown of Enter on the focused preview node: the listener of the node
\* (single-line: preventDefault and blur, whose listener runs at once), then
\* the keydown listener of the preview root; where neither prevents it, the
\* browser inserts the line break and the node's input listener runs
KeydownEnter(n) ==
    /\ page = "site" /\ focus = n
    /\ ck.pending < MaxPending
    /\ LET routed == getActionTarget(n) # "none"
           image == inputs["main"].value
           s1 == IF Multiline(n) /\ ~routed
                 THEN syncFieldFromPreview(fields, image,
                                           [pv EXCEPT ![n].content = @ \o LineBreak],
                                           ck, focus, n)
                 ELSE onBlur(fields, image, pv, ck, n)
       IN  /\ Multiline(n) /\ ~routed => Len(pv[n].content) < MaxText
           /\ fields' = s1.fields
           /\ pv' = s1.pv
           /\ ck' = s1.ck
           /\ notes' = s1.notes
           /\ focus' = IF routed THEN "control" ELSE IF Multiline(n) THEN n ELSE "none"
    /\ last' = Event("enter", n)
    /\ UNCHANGED <<absent, docs, page, inputs, globalEndpoint, reqs>>

\* the user edits in the rich-text editor, which notifies 'change'
EditorChange(v) ==
    /\ ck.inst /\ focus = "none" /\ ck.data # v
    /\ ck' = [ck EXCEPT !.data = v]
    /\ LET r == RenderTimes(IF ck.subscribed THEN 1 ELSE 0,
                            page, fields, inputs["main"].value, pv, ck', focus)
       IN  fields' = r.fields /\ pv' = r.pv
    /\ notes' = <<>>
    /\ last' = Event("editor", "summary")
    /\ UNCHANGED <<absent, docs, page, inputs, focus, globalEndpoint, reqs>>

\* Mutant of EditorNotify: the render of a notification makes the editor
\* queue another one
EditorNotifyRequeues ==
    /\ ck.pending > 0
    /\ ck' = ck
    /\ LET r == Render(page, fields, inputs["main"].value, pv, ck', focus)
       IN  fields' = r.fields /\ pv' = r.pv
    /\ notes' = <<>>
    /\ last' = Event("notify", "summary")
    /\ UNCHANGED <<absent, docs, page, inputs, focus, globalEndpoint, reqs>>

\* the editor delivers a queued notification (dataReady after setData)
EditorNotify ==
    /\ ck.pending > 0
    /\ ck' = [ck EXCEPT !.pending = @ - 1]
    /\ LET r == Render(page, fields, inputs["main"].value, pv, ck', focus)
       IN  fields' = r.fields /\ pv' = r.pv
    /\ notes' = <<>>
    /\ last' = Event("notify", "summary")
    /\ UNCHANGED <<absent, docs, page, inputs, focus, globalEndpoint, reqs>>

\* The page as the server sends it, then ready()
Init ==
    /\ absent = {}
    /\ docs = NoDocs
    /\ page \in {"admin", "site"}
    /\ globalEndpoint = "/upload"
    /\ focus = "none"
    /\ reqs = <<>>
    /\ notes = <<>>
    /\ last = NoLast
    /\ \E img \in {<<>>, <<"u0">>}, inst \in BOOLEAN :
         LET st == ready(page, EmptyFields,
                         [i \in Inputs |-> IF i = "main" THEN MarkupInput("", img) ELSE NoInput],
                         "/upload",
                         [NoEditor EXCEPT !.inst = inst])
         IN  /\ ck = st.ck
             /\ fields = st.fields
             /\ inputs = st.inputs
             /\ pv = st.pv

Next ==
    \/ \E name \in TextFields : \E v \in Typed(name) : FieldInput(name, v)
    \/ \E v \in ScaleTyped : NumberInput("imageScale", v)
    \/ \E v \in RotationTyped : NumberInput("imageRotation", v)
    \/ FieldChange
    \/ \E n \in Nodes : FocusNode(n)
    \/ \E n \in Nodes : \E c \in Edits(n, pv[n].content) : InputNode(n, c)
    \/ \E n \in Nodes : BlurNode(n)
    \/ \E v \in Typed("summary") : EditorChange(v)
    \/ EditorNotify

Spec == Init /\ [][Next]_vars

----------------------------------------------------------------------------
(* Claims about the upload controller *)

InFlight(i) == {k \in 1..Len(reqs) : reqs[k].inp = i /\ reqs[k].stage = "pending"}

\* C3 as stated: for each image field at most one upload request is in flight
\* at any time.
C3_SingleFlight == \A i \in Inputs : Cardinality(InFlight(i)) <= 1

\* C3 amended: one event starts at most one request and never cancels or
\* replaces an earlier one: a request already in flight stays in flight until
\* its own response arrives, whatever else is started on the same field.
C3_IndependentRequests ==
    [][/\ Len(reqs') <= Len(reqs) + 1
       /\ Len(reqs') >= Len(reqs)
       /\ \A k \in 1..Len(reqs) :
            /\ reqs'[k].inp = reqs[k].inp
            /\ reqs'[k].file = reqs[k].file
            /\ (reqs[k].stage = "pending" /\ reqs'[k].stage # "pending")
                 => (last'.op = "settle" /\ last'.req = k)]_vars

C3_Witness == Cardinality(InFlight("main")) >= 2

\* C4: a response writes the image field and shows the success message if and
\* only if the status is a success status, the uploaded flag is exactly 1 and
\* the url is non-empty; the field then holds that url and an input and a
\* change notification were dispatched on it.
C4_SuccessIff ==
    [][last'.op = "settle" =>
         LET i == last'.inp
             shown == inputs'[i].feedback = [text |-> MsgSuccess, status |-> "success"]
         IN  /\ last'.okFlagUrl => /\ inputs'[i].value = StoredUrl(reqs[last'.req].file)
                                   /\ shown
                                   /\ notes' = <<"input", "change">>
             /\ ~last'.okFlagUrl => /\ inputs'[i].value = inputs[i].value
                                    /\ ~shown
                                    /\ notes' = <<>>]_vars

C4_Witness ==
    /\ last.op = "settle"
    /\ notes = <<"input", "change">>
    /\ inputs[last.inp].feedback.status = "success"
    /\ inputs[last.inp].value = StoredUrl(reqs[last.req].file)

Failed(k) == k \in 1..Len(reqs) /\ reqs[k].stage = "settled" /\ notes = <<>>

\* C5 as stated: every failed upload leaves the image field's value exactly as
\* it was before the upload started, dispatches no notification on it and
\* ends with the feedback in the error status.
C5_ValueAsBeforeStart ==
    \A k \in 1..MaxUploads :
      Failed(k) => /\ inputs[reqs[k].inp].value = reqs[k].before
                   /\ inputs[reqs[k].inp].feedback.status = "error"

\* C5 amended: the handling of a failed response (bad status, flag other than
\* 1, missing url, unparsable body, network error) leaves the image field's
\* value as it was when the response arrived, renders nothing, dispatches no
\* notification and sets the error status, which the .finally leaves in place.
C5_FailureWritesNothing ==
    [][/\ (last'.op = "settle" /\ ~last'.okFlagUrl)
            => /\ inputs'[last'.inp].value = inputs[last'.inp].value
               /\ notes' = <<>>
               /\ inputs'[last'.inp].feedback.status = "error"
               /\ fields' = fields /\ pv' = pv
       /\ last'.op = "finally"
            => /\ inputs'[last'.inp].feedback = inputs[last'.inp].feedback
               /\ inputs'[last'.inp].value = inputs[last'.inp].value]_vars

\* a failure handled while the field holds something else than at the start
C5_Witness ==
    \E k \in 1..MaxUploads :
      /\ Failed(k)
      /\ inputs[reqs[k].inp].value # reqs[k].before
      /\ inputs[reqs[k].inp].feedback.status = "error"

\* C6: every upload whose request settles has the busy state of its wrapper
\* removed, whatever the outcome.
C6_BusyCleared ==
    \A k \in 1..MaxUploads :
      (k <= Len(reqs) /\ reqs[k].stage = "settled")
        ~> (k <= Len(reqs) /\ reqs[k].stage = "done" /\ ~inputs[reqs[k].inp].uploading)

\* a failed upload whose .finally has run
C6_Witness ==
    /\ last.op = "finally"
    /\ reqs[last.req].stage = "done"
    /\ inputs[last.inp].feedback.status = "error"
    /\ ~inputs[last.inp].uploading

Unconfigured(i) ==
    inputs[i].present /\ inputs[i].bound /\ inputs[i].endpointAttr = "" /\ globalEndpoint = ""

\* C7: an image input bound while neither endpoint is configured shows the
\* configuration failure, and no event on it starts a request or applies the
\* busy state.
C7_NoEndpointNoUpload ==
    \A i \in Inputs :
      Unconfigured(i) =>
        /\ inputs[i].feedback = [text |-> MsgUnavailable, status |-> "error"]
        /\ ~inputs[i].uploading
        /\ \A k \in 1..Len(reqs) : reqs[k].inp # i

\* a drop carrying files on the input that has no endpoint
C7_Witness == Unconfigured("main") /\ last.op = "drop" /\ last.inp = "main" /\ last.files > 0

\* C8: a paste, drop or file selection on a bound image field starts exactly
\* one request, carrying the first file, when it has files and none when it
\* has not; a response, failed or not, starts no request.
C8_OneRequestPerEvent ==
    [][/\ \A i \in Inputs, payload \in Payloads :
            ((Paste(i, payload) \/ Drop(i, payload) \/ FilePick(i, payload))
              /\ inputs[i].handlers > 0)
              => IF payload = <<>> THEN reqs' = reqs
                 ELSE /\ Len(reqs') = Len(reqs) + 1
                      /\ SubSeq(reqs', 1, Len(reqs)) = reqs
                      /\ reqs'[Len(reqs')].inp = i
                      /\ reqs'[Len(reqs')].file = payload[1]
                      /\ reqs'[Len(reqs')].stage = "pending"
       /\ last'.op \in {"settle", "finally", "type"} => Len(reqs') = Len(reqs)]_vars

\* a settled failure after a two-file drop: still one request, with the first file
C8_Witness ==
    /\ Len(reqs) = 1 /\ reqs[1].file = "f2"
    /\ Failed(1)

\* C9: after a successful upload on the image field of the preview, the
\* preview shows the image: un-hidden, its source the returned url, has-image
\* on the wrapper, the empty-state placeholder hidden.
C9_PreviewShowsUpload ==
    (last.op \in {"settle", "finally"} /\ last.inp = "main"
       /\ inputs["main"].feedback.status = "success")
      => /\ pv.image.src = StoredUrl(reqs[last.req].file)
         /\ ~pv.image.hidden
         /\ pv.wrapper.hasImage
         /\ pv.empty.hidden

C9_Witness ==
    /\ last.op = "finally" /\ last.inp = "main"
    /\ inputs["main"].feedback.status = "success"
    /\ pv.image.src = StoredUrl(reqs[last.req].file)
    /\ ~pv.image.hidden

----------------------------------------------------------------------------
(* Claims about the preview synchronizer, checked under Spec *)

\* C1: calling the preview render twice in a row with no field change in
\* between is idempotent: the second call (the 'change' notification that
\* follows an 'input' on an unchanged control) changes nothing of the preview,
\* the controls or the fields that the first call left behind.
C1_RenderIdempotent ==
    [][FieldChange => (pv' = pv /\ fields' = fields)]_vars

\* C2: after any sequence of focus, input, blur and render events on the
\* editable preview nodes, no placeholder text or markup is in a backing form
\* field nor in the data of the bound rich-text editor.
C2_PlaceholderNeverPersisted ==
    /\ \A name \in TextFields : ~HasPlaceholder(fields[name])
    /\ ~HasPlaceholder(ck.data)

\* The nodes of the title, badge and date fields
TitleBadgeDate == {"title", "badge", "date"}

\* node n shows the trimmed value of its field with flag 'false', or the
\* placeholder of the field with flag 'true' when the trimmed value is empty
Shown(n) ==
    LET value == Trim(fields[FieldOf(n)])
    IN  IF value # <<>>
        THEN pv[n].content = value /\ pv[n].placeholder = "false"
        ELSE pv[n].content = PlaceholderOf(n) /\ pv[n].placeholder = "true"

\* the last event was an input or change notification on the field of node n:
\* the user typed in a control or left it (one listener serves every control),
\* or the listeners of node n dispatched the notifications on its field
AfterEventOn(n) ==
    \/ last.op \in {"input", "change"}
    \/ last.op \in {"edit", "blur"} /\ last.inp = n

\* C10 as stated: after any input or change event on the title, badge or
\* date field, the node shows the trimmed value with flag 'false', or the
\* placeholder text with flag 'true' when the value is empty or blank.
C10_NodeShowsField ==
    \A n \in TitleBadgeDate : AfterEventOn(n) => Shown(n)

\* C10, amended: after any input or change event on the title, badge or date
\* field, the node shows the trimmed value or the placeholder as stated
\* whenever it does not have the focus; while it has the focus its content
\* stays as the user typed it and only its placeholder flag follows the field.
C10_UnfocusedNodeShowsField ==
    [][\A n \in TitleBadgeDate :
         /\ (AfterEventOn(n) /\ focus # n)' => Shown(n)'
         /\ \A c \in Edits(n, pv[n].content) :
              (last'.op = "edit" /\ last'.inp = n /\ InputNode(n, c)) =>
                /\ focus' = n
                /\ pv'[n].content = c
                /\ pv'[n].placeholder = Flag(Trim(fields'[FieldOf(n)]) # <<>>)]_vars

\* a blank title and a date with a trailing blank typed into their controls:
\* the title node shows its placeholder, the date node the trimmed date
C10_Witness ==
    /\ last.op = "change" /\ focus = "none"
    /\ fields.title = <<" ">>
    /\ pv.title.content = defaults.title /\ pv.title.placeholder = "true"
    /\ fields.displayDate = <<"d", " ">>
    /\ pv.date.content = <<"d">> /\ pv.date.placeholder = "false"

----------------------------------------------------------------------------
(* Render of the link and of the image, for any value of their fields *)

LinkLabels == {<<>>, <<" ">>, <<"l">>}
LinkUrls == {<<>>, <<"/news/1">>, <<" ", "/news/1">>, <<"news">>, <<"https://b.org">>,
             <<"http://[">>}
ImageUrls == {<<>>, <<" ">>, <<"u0", " ">>}

\* style.transform of the preview image as the page's markup may carry it
MarkupTransforms == {NoTransform, [on |-> TRUE, scale |-> 1500, rotation |-> 900]}

\* The page as the server sends it, then ready()
InitRender ==
    /\ absent = {}
    /\ docs = NoDocs
    /\ page \in {"admin", "site"}
    /\ globalEndpoint = "/upload"
    /\ focus = "none"
    /\ reqs = <<>>
    /\ notes = <<>>
    /\ last = NoLast
    /\ \E label \in LinkLabels, url \in LinkUrls, img \in ImageUrls, t \in MarkupTransforms :
         LET st == readyMarkup(page,
                               [EmptyFields EXCEPT !.linkLabel = label, !.linkUrl = url],
                               [i \in Inputs |-> IF i = "main" THEN MarkupInput("", img)
                                                 ELSE NoInput],
                               "/upload", NoEditor,
                               [BlankPv EXCEPT !.image.transform = t])
         IN  /\ ck = st.ck
             /\ fields = st.fields
             /\ inputs = st.inputs
             /\ pv = st.pv

NextRender ==
    \/ \E v \in LinkLabels : FieldInput("linkLabel", v)
    \/ \E v \in LinkUrls : FieldInput("linkUrl", v)
    \/ FieldChange
    \/ \E v \in ImageUrls : TypeImage("main", v)

SpecRender == InitRender /\ [][NextRender]_vars

\* C11 as stated: after every render the link's href is '#' and the link is
\* flagged as placeholder exactly when the trimmed label is empty; with a
\* label the href is the link URL resolved against the page origin, or the raw
\* URL when it cannot be parsed.
C11_LinkResolved ==
    LET label == Trim(fields.linkLabel)
        url == Trim(fields.linkUrl)
    IN  /\ (pv.link.href = <<"#">> /\ pv.link.placeholder = "true") <=> (label = <<>>)
        /\ label # <<>> =>
              pv.link.href = IF newURL(url).throws THEN url ELSE newURL(url).href

\* C11, amended: after every render the link is flagged as placeholder, with
\* href '#', exactly when the trimmed label is empty, whatever the URL field
\* holds; with a label the flag is 'false' and the href is '#' when the
\* trimmed URL is empty, the URL resolved against the page origin when it
\* parses, and the trimmed URL unchanged when it does not.
C11_LinkResolvedOrHash ==
    LET label == Trim(fields.linkLabel)
        url == Trim(fields.linkUrl)
    IN  IF label = <<>>
        THEN pv.link.href = <<"#">> /\ pv.link.placeholder = "true"
        ELSE /\ pv.link.placeholder = "false"
             /\ pv.link.href = IF url = <<>> THEN <<"#">>
                               ELSE IF newURL(url).throws THEN url
                               ELSE newURL(url).href

\* a labelled link whose URL does not parse keeps the raw URL
C11_Witness ==
    /\ last.op = "input"
    /\ Trim(fields.linkLabel) = <<"l">> /\ fields.linkUrl = <<"http://[">>
    /\ pv.link.href = <<"http://[">> /\ pv.link.placeholder = "false"

----------------------------------------------------------------------------
(* Render of the summary, for any markup its control or its editor holds *)

\* The pieces of markup a summary is made of: script tags, entity-encoded
\* script tags, text, a line break
MarkupTokens == {"<script>", "<SCRIPT src=x>", "</script>",
                 "&lt;script&gt;", "&lt;/script&gt;", "x", "\n"}

MaxMarkup == 3    \* tokens of a summary drawn from MarkupTokens

\* a script element written around another one
NestedScript == <<"<scr", "<script>", "</script>", "ipt>", "x", "</script>">>

MarkupTexts ==
    UNION {[1..n -> MarkupTokens] : n \in 0..MaxMarkup} \cup {NestedScript}

\* The page as the server sends it, the summary in the textarea or in the
\* editor, then ready()
InitMarkup ==
    /\ absent = {}
    /\ docs = NoDocs
    /\ page \in {"admin", "site"}
    /\ globalEndpoint = "/upload"
    /\ focus = "none"
    /\ reqs = <<>>
    /\ notes = <<>>
    /\ last = NoLast
    /\ \E html \in MarkupTexts, inst \in BOOLEAN :
         LET st == ready(page,
                         [EmptyFields EXCEPT !.summary = IF inst THEN <<>> ELSE html],
                         [i \in Inputs |-> IF i = "main" THEN MarkupInput("", <<>>)
                                           ELSE NoInput],
                         "/upload",
                         [NoEditor EXCEPT !.inst = inst, !.data = IF inst THEN html ELSE <<>>])
         IN  /\ ck = st.ck
             /\ fields = st.fields
             /\ inputs = st.inputs
             /\ pv = st.pv

NextMarkup ==
    \/ \E v \in Typed("summary") : FieldInput("summary", v)
    \/ \E v \in Typed("summary") : EditorChange(v)
    \/ FieldChange

SpecMarkup == InitMarkup /\ [][NextMarkup]_vars

\* position i of html opens a script element: a script tag, or the two halves
\* of one that removing a fragment has joined
OpensScript(html, i) ==
    \/ html[i] \in OpenTags
    \/ i < Len(html) /\ html[i] = "<scr" /\ html[i + 1] = "ipt>"

\* html contains a <script>...</script> fragment
HasScript(html) ==
    \E i \in 1..Len(html) : \E j \in (i + 1)..Len(html) :
        OpensScript(html, i) /\ html[j] \in CloseTags

\* C13: for every summary value (plain, entity-encoded, mixed case, with
\* attributes, spanning several lines, nested) the HTML written into the
\* summary preview node contains no <script>...</script> fragment.
C13_NoScriptInPreview == ~HasScript(pv.summary.content)


----------------------------------------------------------------------------
(* The image controls of the form: the scale control, the rotation control *)
(* and the reset button, with the scale and rotation fields they write     *)

\* What the listeners of the controls leave behind: the fields and the preview
Rendered(f, p) == [fields |-> f, pv |-> p]

\* input listener of the scale control; value is target.value
onScaleControl(f, image, p, editor, value) ==
    LET percent == parseInt(value)
        normalized == IF percent.nan THEN Num(1000) ELSE Num(percent.v * 10)
        formatted == toFixed2(clamp(normalized, IMAGE_SCALE_MIN, IMAGE_SCALE_MAX).v)
    IN  Render("admin", [f EXCEPT !.imageScale = formatted], image, p, editor, "none")

\* Mutant of onRotationControl: the entry is read with its decimals and
\* rounded, not cut to its integer part
onRotationControlRounding(f, image, p, editor, value) ==
    LET degrees == parseFloat(value, 1)
        normalized == IF degrees.nan THEN Num(0) ELSE degrees
        formatted == roundedString(clamp(normalized, IMAGE_ROTATION_MIN, IMAGE_ROTATION_MAX).v)
    IN  Render("admin", [f EXCEPT !.imageRotation = formatted], image, p, editor, "none")

\* input listener of the rotation control; value is target.value
onRotationControl(f, image, p, editor, value) ==
    LET degrees == parseInt(value)
        normalized == IF degrees.nan THEN Num(0) ELSE Num(degrees.v * 10)
        formatted == roundedString(clamp(normalized, IMAGE_ROTATION_MIN, IMAGE_ROTATION_MAX).v)
    IN  Render("admin", [f EXCEPT !.imageRotation = formatted], image, p, editor, "none")

\* Mutant of onReset: the fields are reset but nothing is rendered
onResetWithoutRender(f, image, p, editor) ==
    Rendered([f EXCEPT !.imageScale = Numeral(100, 2), !.imageRotation = Numeral(0, 0)], p)

\* click listener of the reset button: a render only when a field changed
onReset(f, image, p, editor) ==
    LET defaultScale == Numeral(100, 2)
        defaultRotation == Numeral(0, 0)
        shouldUpdate == f.imageScale # defaultScale \/ f.imageRotation # defaultRotation
        f1 == [f EXCEPT !.imageScale = defaultScale, !.imageRotation = defaultRotation]
    IN  IF shouldUpdate THEN Render("admin", f1, image, p, editor, "none")
        ELSE Rendered(f, p)

\* What the user enters in the scale control (a percentage) and in the
\* rotation control (degrees)
ScaleEntries ==
    {Numeral(250, 0), Numeral(125, 0), Numeral(1257, 1), Numeral(30, 0),
     Numeral(-5, 0), Garbage, EmptyStr}
RotationEntries ==
    {Numeral(-400, 0), Numeral(45, 0), Numeral(106, 1), Numeral(-106, 1),
     Numeral(400, 0), Garbage, EmptyStr}

\* What the user or a script writes in the scale field and in the rotation
\* field themselves
ScaleFieldTyped ==
    {Numeral(1234, 3), Numeral(585, 3), Numeral(150, 2), Numeral(3, 0),
     Numeral(-1, 0), Garbage, EmptyStr}
RotationFieldTyped ==
    {Numeral(106, 1), Numeral(-105, 1), Numeral(-400, 0), Numeral(270, 0),
     Garbage, EmptyStr}

\* input on the scale control: the user moves it or types a value in it
ScaleControlInput(v) ==
    /\ {"scaleControl", "imageScale"} \cap absent = {}
    /\ page = "admin" /\ focus = "none" /\ ~pv.controls.scaleDisabled
    /\ LET r == onScaleControl(fields, inputs["main"].value, pv, ck, v)
       IN  fields' = r.fields /\ pv' = r.pv
    /\ notes' = <<>>
    /\ last' = Event("scale", "main")
    /\ UNCHANGED <<absent, docs, page, inputs, focus, ck, globalEndpoint, reqs>>

\* input on the rotation control
RotationControlInput(v) ==
    /\ {"rotationControl", "imageRotation"} \cap absent = {}
    /\ page = "admin" /\ focus = "none" /\ ~pv.controls.rotationDisabled
    /\ LET r == onRotationControl(fields, inputs["main"].value, pv, ck, v)
       IN  fields' = r.fields /\ pv' = r.pv
    /\ notes' = <<>>
    /\ last' = Event("rotation", "main")
    /\ UNCHANGED <<absent, docs, page, inputs, focus, ck, globalEndpoint, reqs>>

\* click on the reset button
ResetClick ==
    /\ {"resetControl", "imageScale", "imageRotation"} \cap absent = {}
    /\ page = "admin" /\ focus = "none" /\ ~pv.controls.resetDisabled
    /\ LET r == onReset(fields, inputs["main"].value, pv, ck)
       IN  fields' = r.fields /\ pv' = r.pv
    /\ notes' = <<>>
    /\ last' = Event("reset", "main")
    /\ UNCHANGED <<absent, docs, page, inputs, focus, ck, globalEndpoint, reqs>>

\* The form as the server sends it, with or without an image and with any
\* stored scale and rotation, then ready()
InitImage ==
    /\ absent = {}
    /\ docs = NoDocs
    /\ page = "admin"
    /\ globalEndpoint = "/upload"
    /\ focus = "none"
    /\ reqs = <<>>
    /\ notes = <<>>
    /\ last = NoLast
    /\ \E img \in {<<>>, <<"u0">>},
          sc \in {EmptyStr, Numeral(150, 2), Numeral(585, 3), Numeral(3, 0)},
          ro \in {EmptyStr, Numeral(90, 0), Numeral(-400, 0)} :
         LET st == ready(page,
                         [EmptyFields EXCEPT !.imageScale = sc, !.imageRotation = ro],
                         [i \in Inputs |-> IF i = "main" THEN MarkupInput("", img) ELSE NoInput],
                         "/upload", NoEditor)
         IN  /\ ck = st.ck
             /\ fields = st.fields
             /\ inputs = st.inputs
             /\ pv = st.pv

NextImage ==
    \/ \E v \in ScaleFieldTyped : NumberInput("imageScale", v)
    \/ \E v \in RotationFieldTyped : NumberInput("imageRotation", v)
    \/ FieldChange
    \/ \E v \in ScaleEntries : ScaleControlInput(v)
    \/ \E v \in RotationEntries : RotationControlInput(v)
    \/ ResetClick
    \/ \E v \in ImageTyped : TypeImage("main", v)

SpecImage == InitImage /\ [][NextImage]_vars


----------------------------------------------------------------------------
(* Claims about the image controls *)

\* x kept between lo and hi
Within(x, lo, hi) == IF x < lo THEN lo ELSE IF x > hi THEN hi ELSE x

\* The integer part of a numeral: its decimals dropped
IntegerPart(v) ==
    IF v.m >= 0 THEN v.m \div Pow10(v.d) ELSE -((-v.m) \div Pow10(v.d))

\* The scale the control's input listener has just left, in the field and in
\* the transform of the image
ScaleLeft(hundredths) ==
    /\ fields'.imageScale = Numeral(hundredths, 2)
    /\ pv'.image.transform.on
    /\ pv'.image.transform.scale = hundredths * 10

\* C14 as stated: for every entry v of the scale control the listener stores
\* v/100, kept between 0.50 and 2.00 and written with two decimals (the nearest
\* hundredth), '1.00' when v is no number, and the transform of the image has
\* that scale.
C14_ScaleControlStores ==
    [][\A v \in ScaleEntries :
         (last'.op = "scale" /\ ScaleControlInput(v)) =>
             IF v.k # "num" THEN ScaleLeft(100)
             ELSE ScaleLeft(MathRound(Within(v.m * Pow10(1 - v.d), 500, 2000)))]_vars

\* C14 amended: the listener takes the integer part of the entry as the
\* percentage; the field holds that percentage over 100, kept between 0.50 and
\* 2.00, with two decimals, '1.00' when the entry is no number, and the
\* transform of the image has that scale.
C14_ScaleControlStoresIntegerPart ==
    [][\A v \in ScaleEntries :
         (last'.op = "scale" /\ ScaleControlInput(v)) =>
             IF v.k # "num" THEN ScaleLeft(100)
             ELSE ScaleLeft(Within(IntegerPart(v), 50, 200))]_vars

\* The control was set to 250 (the one entry above 200): the field holds
\* '2.00' and the image is scaled by 2
C14_Witness ==
    /\ last.op = "scale"
    /\ fields.imageScale = Numeral(200, 2)
    /\ pv.image.transform.on /\ pv.image.transform.scale = 2000


\* C15: for every entry v of the rotation control the listener stores the
\* integer part of v, kept between -180 and 180, as a whole number of degrees,
\* and '0' when v is no number.
C15_RotationControlStores ==
    [][\A v \in RotationEntries :
         (last'.op = "rotation" /\ RotationControlInput(v)) =>
             fields'.imageRotation =
                 IF v.k # "num" THEN Numeral(0, 0)
                 ELSE Numeral(Within(IntegerPart(v), -180, 180), 0)]_vars

\* The control was set to -400 (the one entry below -180): the field holds
\* '-180'
C15_Witness ==
    /\ last.op = "rotation"
    /\ fields.imageRotation = Numeral(-180, 0)
    /\ pv.image.transform.rotation = -1800


\* The scale field holds a numeral with two decimals between 0.50 and 2.00,
\* the rotation field a whole number between -180 and 180
FieldsInRange(f) ==
    /\ f.imageScale.k = "num" /\ f.imageScale.d = 2
    /\ f.imageScale.m >= 50 /\ f.imageScale.m <= 200
    /\ f.imageRotation.k = "num" /\ f.imageRotation.d = 0
    /\ f.imageRotation.m >= -180 /\ f.imageRotation.m <= 180

\* C16: after ready() and after every input on the fields or on the controls,
\* every reset and every render, the scale field holds a number between 0.5
\* and 2.0 and the rotation field a number between -180 and 180; a scale field
\* left empty or with text that is no number holds 1.00 after its input event,
\* a rotation field 0.
C16_FieldsStayInRange ==
    /\ [](page = "admin" => FieldsInRange(fields))
    /\ [][\A v \in {EmptyStr, Garbage} :
            /\ (last'.op = "input" /\ NumberInput("imageScale", v))
                   => fields'.imageScale = Numeral(100, 2)
            /\ (last'.op = "input" /\ NumberInput("imageRotation", v))
                   => fields'.imageRotation = Numeral(0, 0)]_vars

\* The scale field was edited while it held 2.00 and the rotation field -180,
\* values that only an entry out of range leaves
C16_Witness ==
    /\ last.op = "input"
    /\ fields.imageScale = Numeral(200, 2)
    /\ fields.imageRotation = Numeral(-180, 0)


\* C17: after every render of the form the scale control shows 100 times the
\* scale the field holds, the rotation control shows the rotation the field
\* holds, the scale field has two decimals and the rotation field none.
C17_ControlsShowFields ==
    page = "admin" =>
        /\ fields.imageScale.k = "num" /\ fields.imageScale.d = 2
        /\ fields.imageRotation.k = "num" /\ fields.imageRotation.d = 0
        /\ pv.controls.scale = fields.imageScale.m
        /\ pv.controls.rotation = fields.imageRotation.m


----------------------------------------------------------------------------
(* Edits of the plain-text preview nodes *)

PlainNodes == {n \in Nodes : ~IsHtml(n)}

\* The characters of the texts typed into a node, and the longest such text
TextTokens == {"a", " ", "nbsp", "\n"}
MaxNodeText == 2

\* '  New   Title  ', and a run made of the three kinds of whitespace
SpacedTitle == <<" ", " ", "New", " ", " ", " ", "Title", " ", " ">>
MixedRun == <<"a", "nbsp", "\n", " ", "a">>

\* What the user leaves in a node: every text of up to MaxNodeText characters
\* and the two above
NodeTexts ==
    UNION {[1..k -> TextTokens] : k \in 0..MaxNodeText} \cup {SpacedTitle, MixedRun}

\* The page of js.js with empty fields and no rich-text editor, then ready()
InitEdit ==
    /\ absent = {}
    /\ docs = NoDocs
    /\ page = "site"
    /\ globalEndpoint = "/upload"
    /\ focus = "none"
    /\ reqs = <<>>
    /\ notes = <<>>
    /\ last = NoLast
    /\ LET st == ready(page, EmptyFields, [i \in Inputs |-> NoInput], "/upload", NoEditor)
       IN  /\ ck = st.ck
           /\ fields = st.fields
           /\ inputs = st.inputs
           /\ pv = st.pv

\* The fields of the other plain-text nodes are empty, as ready() found them
OthersUntouched(n) == \A k \in PlainNodes \ {n} : fields[FieldOf(k)] = <<>>

\* The user edits one node at a time: a node is entered while the fields of
\* the others are still empty
NextEdit ==
    \/ \E n \in PlainNodes : OthersUntouched(n) /\ FocusNode(n)
    \/ \E n \in PlainNodes, c \in NodeTexts : InputNode(n, c)
    \/ \E n \in PlainNodes : BlurNode(n)

SpecEdit == InitEdit /\ [][NextEdit]_vars

\* The positions of a text that survive: every character that is no
\* whitespace, and the first whitespace of a run that has such a character
\* somewhere before it and somewhere after it
Kept(c) ==
    {i \in 1..Len(c) :
        \/ c[i] \notin {" ", "nbsp", "\n"}
        \/ /\ i > 1 /\ c[i - 1] \notin {" ", "nbsp", "\n"}
           /\ \E j \in (i + 1)..Len(c) : c[j] \notin {" ", "nbsp", "\n"}}

\* The k-th of these positions
KeptAt(c, k) == CHOOSE i \in Kept(c) : Cardinality({j \in Kept(c) : j <= i}) = k

\* The text with its whitespace normalised: the surviving characters in
\* order, a surviving whitespace being a space
Normalised(c) ==
    [k \in 1..Cardinality(Kept(c)) |->
        IF c[KeptAt(c, k)] \in {" ", "nbsp", "\n"} THEN " " ELSE c[KeptAt(c, k)]]

\* C18: after an edit of a plain-text node (title, badge, date, link label)
\* the field bound to it holds the text of the node with every non-breaking
\* space a space, every run of whitespace one space, and no whitespace at
\* either end.
C18_FieldHoldsNormalisedText ==
    (last.op = "edit" /\ last.inp \in PlainNodes) =>
        fields[FieldOf(last.inp)] = Normalised(pv[last.inp].content)

\* '  New   Title  ' was typed into the title node: the title field holds
\* 'New Title'
C18_Witness ==
    /\ last.op = "edit" /\ last.inp = "title"
    /\ pv.title.content = SpacedTitle
    /\ fields.title = <<"New", " ", "Title">>


----------------------------------------------------------------------------
(* Claims about the notifications of the reverse sync *)

\* C19: every edit of an editable preview node, the summary with a rich-text
\* editor instance included, dispatches notifications on the field of the
\* node: input and change when the normalised content of the node differs
\* from the value the field had, input alone when it does not.
C19_EditNotifiesField ==
    [][\A n \in Nodes :
         (last'.op = "edit" /\ last'.inp = n) =>
             \E c \in Edits(n, pv[n].content) :
                 /\ InputNode(n, c)
                 /\ notes' = IF normaliseValue(c, n) # fields[FieldOf(n)]
                             THEN <<"input", "change">>
                             ELSE <<"input">>]_vars


----------------------------------------------------------------------------
(* Pages that lack some of the controls and preview elements *)

\* The pages looked at: the complete one, each one that lacks one control or
\* one element, and some that lack many
Absences ==
    {{}} \cup {{e} : e \in FormFields \cup PreviewElements}
         \cup {{"linkEl", "imageWrapper", "imageControls"},
               FormFields, PreviewElements, FormFields \cup PreviewElements}

\* What the server sends in the controls that exist
SentFields ==
    [title |-> <<"a">>, summary |-> <<"s">>, badge |-> <<"b">>, displayDate |-> <<"d">>,
     linkLabel |-> <<"l">>, linkUrl |-> <<"/news/1">>,
     imageScale |-> Numeral(150, 2), imageRotation |-> Numeral(90, 0)]

\* The data-preview-trigger values that handleAction knows, and one it does not
Triggers == {"title", "summary", "badge", "date", "link", "image", "other"}

\* getImageUploadButton(): the button that setupImageUpload has created next
\* to an image input with an endpoint
HasUploadButton(ins) == \E i \in Inputs : ins[i].present /\ ins[i].handlers > 0

\* focusField(field): the control that has the focus afterwards, none for a
\* control the page lacks
focusField(name) == IF name \in absent THEN "none" ELSE name

\* focusSummaryField(fields): the editor of the summary when there is one,
\* the textarea otherwise
focusSummaryField(editor) ==
    IF "summary" \in absent THEN "none"
    ELSE IF editor.inst THEN "editor" ELSE focusField("summary")

\* Mutant of handleAction: the image action goes to the image field at once
handleActionNoButton(action, ins, editor) ==
    CASE action = "title" -> focusField("title")
      [] action = "summary" -> focusSummaryField(editor)
      [] action = "badge" -> focusField("badge")
      [] action = "date" -> focusField("displayDate")
      [] action = "link" -> focusField("linkLabel")
      [] action = "image" -> focusField("imageUrl")
      [] OTHER -> "none"

\* handleAction(action): the control that is given the focus, or the upload
\* button that is clicked; "none" when the handler does nothing
handleAction(action, ins, editor) ==
    CASE action = "title" -> focusField("title")
      [] action = "summary" -> focusSummaryField(editor)
      [] action = "badge" -> focusField("badge")
      [] action = "date" -> focusField("displayDate")
      [] action = "link" -> focusField("linkLabel")
      [] action = "image" -> IF HasUploadButton(ins) THEN "uploadButton"
                             ELSE focusField("imageUrl")
      [] OTHER -> "none"

\* click, Enter or space on a [data-preview-trigger] element, outside of the
\* editable nodes: handleAction moves the focus to the control of the action,
\* when there is one
PreviewTrigger(a) ==
    /\ focus = "none"
    /\ notes' = <<>>
    /\ last' = [Event("trigger", a) EXCEPT !.control = handleAction(a, inputs, ck)]
    /\ UNCHANGED <<absent, docs, page, fields, inputs, pv, focus, ck, globalEndpoint, reqs>>

InitAbsent ==
    /\ absent \in Absences
    /\ docs = NoDocs
    /\ page \in {"admin", "site"}
    /\ globalEndpoint = "/upload"
    /\ focus = "none"
    /\ reqs = <<>>
    /\ notes = <<>>
    /\ last = NoLast
    /\ LET st == ready(page, Seen(SentFields),
                       [i \in Inputs |-> IF i = "main" /\ "imageUrl" \notin absent
                                         THEN MarkupInput("", <<"u0">>) ELSE NoInput],
                       "/upload", NoEditor)
       IN  /\ ck = st.ck
           /\ fields = st.fields
           /\ inputs = st.inputs
           /\ pv = st.pv

NextAbsent ==
    \/ \E name \in {"title", "linkLabel"} : \E v \in Typed(name) : FieldInput(name, v)
    \/ FieldChange
    \/ \E v \in {Numeral(250, 0), Garbage} : ScaleControlInput(v)
    \/ \E v \in {Numeral(-400, 0), Garbage} : RotationControlInput(v)
    \/ ResetClick
    \/ \E a \in Triggers : PreviewTrigger(a)
    \/ \E n \in {"title", "linkLabel"} : FocusNode(n)
    \/ \E n \in {"title", "linkLabel"} : \E c \in Typed(n) : InputNode(n, c)
    \/ \E n \in {"title", "linkLabel"} : BlurNode(n)

SpecAbsent == InitAbsent /\ [][NextAbsent]_vars

\* The parts of the preview: the nodes and, one by one, what the image
\* controls show
ControlParts ==
    {"hidden", "scale", "scaleDisabled", "scaleValue", "rotation", "rotationDisabled",
     "rotationValue", "resetDisabled"}
Parts == (DOMAIN BlankPv \ {"controls"}) \cup ControlParts
PartOf(p, part) == IF part \in ControlParts THEN p.controls[part] ELSE p[part]

\* The element that carries a part
Carrier(part) ==
    CASE part = "title" -> "titleEl"
      [] part = "summary" -> "summaryEl"
      [] part = "badge" -> "badgeEl"
      [] part = "date" -> "dateEl"
      [] part = "linkLabel" -> "linkLabelEl"
      [] part = "link" -> "linkEl"
      [] part = "image" -> "imageEl"
      [] part = "wrapper" -> "imageWrapper"
      [] part = "empty" -> "imagePlaceholder"
      [] part = "hidden" -> "imageControls"
      [] part \in {"scale", "scaleDisabled"} -> "scaleControl"
      [] part = "scaleValue" -> "scaleValueEl"
      [] part \in {"rotation", "rotationDisabled"} -> "rotationControl"
      [] part = "rotationValue" -> "rotationValueEl"
      [] part = "resetDisabled" -> "resetControl"

\* The elements a part is rendered together with: the link and its label, the
\* image, its wrapper and (for the empty state) its placeholder, a control and
\* the container of the controls
Companions(part) ==
    CASE part \in {"link", "linkLabel"} -> {"linkEl", "linkLabelEl"}
      [] part \in {"image", "wrapper"} -> {"imageWrapper", "imageEl"}
      [] part = "empty" -> {"imageWrapper", "imageEl"}
      [] part \in ControlParts -> {"imageControls"}
      [] OTHER -> {}

\* What the render leaves on the page that has every control and element, the
\* absent controls counting as empty ones
FullPreview ==
    RenderFull(page, Seen(fields),
               IF "imageUrl" \in absent THEN <<>> ELSE inputs["main"].value,
               pv, ck, focus).pv

----------------------------------------------------------------------------
(* The summary control with a rich-text editor instance *)

\* What the textarea holds (the editor does not write it back) and what the
\* editor returns from getData()
TextareaSent == {<<>>, <<"t">>}
EditorData == {<<>>, <<"s">>, <<" ", "&lt;script&gt;", "x", "</script>", "s">>}

\* The page with an editor instance registered for the summary, then ready()
InitEditor ==
    /\ absent = {}
    /\ docs = NoDocs
    /\ page \in {"admin", "site"}
    /\ globalEndpoint = "/upload"
    /\ focus = "none"
    /\ reqs = <<>>
    /\ notes = <<>>
    /\ last = NoLast
    /\ \E t \in TextareaSent, d \in EditorData :
         LET st == ready(page, [EmptyFields EXCEPT !.summary = t],
                         [i \in Inputs |-> IF i = "main" THEN MarkupInput("", <<>>)
                                           ELSE NoInput],
                         "/upload",
                         [NoEditor EXCEPT !.inst = TRUE, !.data = d])
         IN  /\ ck = st.ck
             /\ fields = st.fields
             /\ inputs = st.inputs
             /\ pv = st.pv

NextEditor ==
    \/ \E v \in Typed("title") : FieldInput("title", v)
    \/ FieldChange
    \/ \E v \in EditorData : EditorChange(v)
    \/ EditorNotify
    \/ FocusNode("summary")
    \/ \E c \in Edits("summary", pv.summary.content) : InputNode("summary", c)
    \/ BlurNode("summary")

SpecEditor == InitEditor /\ [][NextEditor]_vars

----------------------------------------------------------------------------
(* Claims about the rich-text editor *)

\* C21: whenever an editor instance is registered for the summary control and
\* the summary node is not the one being edited, the preview of the summary is
\* what getData() returns (decoded, sanitized, trimmed, or the placeholder when
\* that is empty), whatever the textarea holds.
C21_SummaryFromEditor ==
    (ck.inst /\ focus # "summary") =>
        pv.summary.content =
            OrElse(Trim(sanitizeHtml(decodeHtml(ck.data))), defaults.summary)

\* The textarea holds 't', the editor returns 's', a control was typed in (so
\* a render ran): the preview shows 's'
C21_Witness ==
    /\ ck.inst /\ last.op = "input"
    /\ fields.summary = <<"t">> /\ ck.data = <<"s">>
    /\ pv.summary.content = <<"s">>


----------------------------------------------------------------------------
(* Claims about overlapping uploads *)

\* The requests of input i whose .finally has not run yet
Outstanding(i) == {k \in 1..Len(reqs) : reqs[k].inp = i /\ reqs[k].stage # "done"}

OverlapsSuccess(k) ==
    /\ reqs[k].stage = "pending"
    /\ inputs[reqs[k].inp].feedback.status = "success"

\* C23: when two uploads to one image field overlap and both succeed, the
\* successful response that arrives last, whichever upload was started first,
\* leaves its own url in the field and the success message in the feedback,
\* and its .finally leaves both in place.
C23_LastResponseWins ==
    [][/\ (/\ last'.op = "settle" /\ last'.okFlagUrl
           /\ OverlapsSuccess(last'.req)
           /\ InFlight(last'.inp) = {last'.req})
            => /\ inputs'[last'.inp].value = StoredUrl(reqs[last'.req].file)
               /\ inputs'[last'.inp].feedback = [text |-> MsgSuccess, status |-> "success"]
       /\ (last'.op = "finally" /\ last.op = "settle" /\ last.okFlagUrl)
            => /\ inputs'[last'.inp].value = inputs[last'.inp].value
               /\ inputs'[last'.inp].feedback = inputs[last'.inp].feedback]_vars

\* The upload started first is answered last, after the success of the one
\* started second with another file: the field holds the first one's url
C23_Witness ==
    /\ last.op = "finally" /\ last.req = 1
    /\ Len(reqs) = 2 /\ reqs[2].inp = reqs[1].inp /\ reqs[2].file # reqs[1].file
    /\ reqs[1].stage = "done" /\ reqs[2].stage = "done"
    /\ inputs[last.inp].value = StoredUrl(reqs[1].file)
    /\ inputs[last.inp].feedback = [text |-> MsgSuccess, status |-> "success"]


----------------------------------------------------------------------------
(* Claims about the feedback of an upload *)

\* The outcomes that the handling of request k in this step can have been of:
\* refused ones whose handling turns the input into what it is afterwards
RefusedHere(k) ==
    {o \in Outcomes :
       /\ ~Accepted(Response(reqs[k], o))
       /\ inputs'[reqs[k].inp] = onResponse(inputs[reqs[k].inp], Response(reqs[k], o)).field}

\* C24 as stated: on every failed upload, a network failure included, the
\* feedback shows the error message of the response body when it carries one
\* and the one generic fallback message otherwise.
C24_ServerMessageOrGeneric ==
    [][(last'.op = "settle" /\ ~last'.okFlagUrl) =>
         \A o \in RefusedHere(last'.req) :
           inputs'[last'.inp].feedback =
             [text |-> IF o.err # "" THEN o.err ELSE MsgGeneric, status |-> "error"]]_vars

\* C24 amended: a refused response shows the error message of its body when
\* it carries one and the generic fallback otherwise; a request that was
\* rejected (network failure) shows the connection message, a second fallback.
C24_ServerGenericOrConnection ==
    [][(last'.op = "settle" /\ ~last'.okFlagUrl) =>
         \A o \in RefusedHere(last'.req) :
           inputs'[last'.inp].feedback =
             [text |-> IF ~o.net THEN MsgConnection
                       ELSE IF o.err # "" THEN o.err ELSE MsgGeneric,
              status |-> "error"]]_vars

\* a refused response whose body carried a message has been handled
C24_Witness ==
    /\ last.op = "settle" /\ ~last.okFlagUrl
    /\ inputs[last.inp].feedback = [text |-> MsgServer, status |-> "error"]


\* C25: the event that starts an upload on an image field leaves the field's
\* feedback empty and without status, and while a request of the field is in
\* flight an empty feedback stays empty through every step that is not the
\* handling of a response of that field.
C25_FeedbackClearedAtStart ==
    [][\A i \in Inputs :
         /\ (Len(reqs') > Len(reqs) /\ last'.inp = i)
              => inputs'[i].feedback = NoFeedback
         /\ (/\ InFlight(i) # {} /\ inputs[i].feedback = NoFeedback
             /\ ~(last'.op = "settle" /\ last'.inp = i))
              => inputs'[i].feedback = NoFeedback]_vars

\* An upload was answered and left its feedback; the next one has just been
\* started and the feedback is empty
C25_Witness ==
    /\ Len(reqs) = 2 /\ reqs[1].stage = "done" /\ reqs[2].stage = "pending"
    /\ reqs[2].inp = reqs[1].inp
    /\ last.op \in {"paste", "drop", "pick"} /\ last.inp = reqs[2].inp
    /\ inputs[last.inp].feedback = NoFeedback


----------------------------------------------------------------------------
(* Claims about the reset button and the disabling of the image controls *)

\* The scale field holds '1.00' and the rotation field '0'
AtDefaults(f) == f.imageScale = Numeral(100, 2) /\ f.imageRotation = Numeral(0, 0)

\* C26: a click on the reset button leaves '1.00' in the scale field and '0'
\* in the rotation field; when one of them held something else the preview is
\* rendered (controls at 100 and 0, image at scale 1 and rotation 0), and when
\* both held the defaults neither a field nor the preview changes.
C26_ResetRendersIffChanged ==
    [][last'.op = "reset" =>
         /\ AtDefaults(fields')
         /\ ~AtDefaults(fields) =>
              /\ pv'.controls.scale = 100 /\ pv'.controls.scaleValue = 100
              /\ pv'.controls.rotation = 0 /\ pv'.controls.rotationValue = 0
              /\ pv'.image.transform = [scale |-> 1000, rotation |-> 0, on |-> TRUE]
              /\ pv' # pv
         /\ AtDefaults(fields) => (fields' = fields /\ pv' = pv)]_vars

\* the reset button was clicked and the preview shows the defaults
C26_Witness ==
    /\ last.op = "reset" /\ AtDefaults(fields)
    /\ pv.controls.scale = 100 /\ pv.controls.rotation = 0
    /\ pv.image.transform = [scale |-> 1000, rotation |-> 0, on |-> TRUE]


\* C27: on the admin form the scale control, the rotation control and the
\* reset button are disabled exactly when the image URL control, trimmed, is
\* empty: every change of that control and every other event renders.
C27_ControlsDisabledIffNoImage ==
    page = "admin" =>
        LET none == Trim(inputs["main"].value) = <<>>
        IN  /\ pv.controls.scaleDisabled = none
            /\ pv.controls.rotationDisabled = none
            /\ pv.controls.resetDisabled = none

\* an image URL has been typed into the empty control: the three are enabled
C27_Witness ==
    /\ page = "admin" /\ last.op = "type"
    /\ Trim(inputs["main"].value) # <<>>
    /\ ~pv.controls.scaleDisabled /\ ~pv.controls.rotationDisabled
    /\ ~pv.controls.resetDisabled


----------------------------------------------------------------------------
(* The keyboard in the editable preview *)

\* The fields of the other nodes, and the editor's data, are still empty
OnlyNodeEdited(n) ==
    /\ \A k \in Nodes \ {n} : fields[FieldOf(k)] = <<>>
    /\ n # "summary" => ck.data = <<>>

\* The user edits one node at a time
NextKeys ==
    \/ \E n \in Nodes : OnlyNodeEdited(n) /\ FocusNode(n)
    \/ \E n \in Nodes : \E c \in Edits(n, pv[n].content) : InputNode(n, c)
    \/ \E n \in Nodes : KeydownEnter(n)
    \/ \E n \in Nodes : BlurNode(n)
    \/ EditorNotify

SpecKeys == Init /\ [][NextKeys]_vars

\* No token of s is a line break
NoLineBreak(s) == \A i \in 1..Len(s) : s[i] \notin {"<br>", "\n"}

\* C28: Enter in a focused single-line node (title, badge, date, link label)
\* takes the focus from the node and gives it to no form control, and neither
\* the node nor its field gets a line break: the field holds the normalised
\* content the node had. Enter in the summary node leaves the focus on it and
\* the line break goes into the summary (the field, or the editor's data).
C28_EnterEndsSingleLineEditing ==
    [][last'.op = "enter" =>
         LET n == last'.inp
         IN  IF Multiline(n)
             THEN /\ focus' = n
                  /\ ~NoLineBreak(IF ck.inst THEN ck'.data ELSE fields'.summary)
             ELSE /\ focus' = "none"
                  /\ NoLineBreak(pv'[n].content)
                  /\ fields'[FieldOf(n)] = normaliseValue(pv[n].content, n)]_vars

\* ' a' was typed into the title node and Enter pressed: the editing is over
\* and the field holds 'a'
C28_Witness ==
    /\ last.op = "enter" /\ last.inp = "title" /\ focus = "none"
    /\ fields.title = <<"a">> /\ pv.title.content = <<"a">>


----------------------------------------------------------------------------
(* Claims about the placeholder of an editable node *)

\* The test of the blur listener: an HTML node without text, markup or not,
\* or a plain node without content
EmptyNode(element, n) ==
    IF IsHtml(n) THEN Trim(TextContent(element.content)) = <<>>
    ELSE element.content = <<>>

\* C29 as stated: the focus on a node that carries the placeholder flag
\* empties the node and clears the flag; the blur of a node whose content is
\* empty leaves the placeholder flag set, the node displaying its placeholder
\* and the backing field empty.
C29_PlaceholderOnFocusAndBlur ==
    [][/\ (last'.op = "focus" /\ pv[last'.inp].placeholder = "true")
            => /\ pv'[last'.inp].content = <<>>
               /\ pv'[last'.inp].placeholder = "false"
       /\ (last'.op = "blur" /\ EmptyNode(pv[last'.inp], last'.inp))
            => /\ pv'[last'.inp].placeholder = "true"
               /\ pv'[last'.inp].content = PlaceholderOf(last'.inp)
               /\ fields'[FieldOf(last'.inp)] = <<>>]_vars


----------------------------------------------------------------------------
(* Claims about the reverse sync into the rich-text editor *)

\* What the reverse sync of content c does with an editor bound: the form is
\* not written; setData is called once, with the normalised content, when
\* that differs from the editor's sanitized and trimmed data, and the editor
\* is left alone when it does not.
PushedToEditor(c) ==
    LET newValue == normaliseValue(c, "summary")
    IN  /\ fields' = fields
        /\ IF newValue # Trim(sanitizeHtml(ck.data))
           THEN ck' = [ck EXCEPT !.data = newValue, !.pending = @ + 1]
           ELSE ck' = ck

\* C30: with an editor instance bound to the summary control, an edit of the
\* summary node and its blur never write the textarea: the normalised HTML is
\* handed to setData exactly when it differs from the editor's sanitized
\* data, and setData is not called when the two are equal.
C30_EditGoesToEditor ==
    [][/\ \A c \in Edits("summary", pv.summary.content) :
            (last'.op = "edit" /\ ck.inst /\ InputNode("summary", c))
              => PushedToEditor(c)
       /\ (last'.op = "blur" /\ last'.inp = "summary" /\ ck.inst)
              => PushedToEditor(pv.summary.content)]_vars

\* 's' was typed into the summary node while the textarea held 't' and the
\* editor nothing: the editor has the 's' and announces it, the textarea
\* still holds 't'
C30_Witness ==
    /\ last.op = "edit" /\ last.inp = "summary" /\ ck.inst
    /\ ck.data = <<"s">> /\ ck.pending = 1
    /\ fields.summary = <<"t">>


----------------------------------------------------------------------------
(* Edit and blur of any editable node, for the texts a user may leave in it *)

\* What the user leaves in the summary node, as its innerHTML: nothing, text,
\* text between blanks, text with a line break, a line break alone, and a
\* typed '<script>x</script>', whose angle brackets the browser keeps as
\* entities
SummaryTexts ==
    {<<>>, <<"s">>, <<" ", "s", " ">>, <<"s", "<br>">>, <<"<br>">>,
     <<"&lt;script&gt;", "x", "&lt;/script&gt;">>}

TextsOf(n) == IF IsHtml(n) THEN SummaryTexts ELSE NodeTexts

\* The user edits one node at a time, with or without a rich-text editor
NextAgree ==
    \/ \E n \in Nodes : OnlyNodeEdited(n) /\ FocusNode(n)
    \/ \E n \in Nodes : \E c \in TextsOf(n) : InputNode(n, c)
    \/ \E n \in Nodes : BlurNode(n)
    \/ EditorNotify

SpecAgree == Init /\ [][NextAgree]_vars

\* C31 as stated: after the blur of an edited node the node displays the
\* trimmed value of its field, or its placeholder when that value is empty.
C31_NodeShowsFieldAfterBlur ==
    last.op = "blur" =>
        pv[last.inp].content =
            OrElse(Trim(fields[FieldOf(last.inp)]), PlaceholderOf(last.inp))

\* What the renderer reads for node n: the field of a plain-text node,
\* trimmed; for the summary the editor's data when an editor is bound and the
\* textarea otherwise, entities decoded, script fragments stripped, trimmed
ReadFor(n) ==
    IF IsHtml(n)
    THEN Trim(sanitizeHtml(decodeHtml(IF ck.inst THEN ck.data ELSE fields.summary)))
    ELSE Trim(fields[FieldOf(n)])

\* C31 amended: after the blur of an edited node the node displays what the
\* renderer reads for it, or its placeholder when that is empty, and carries
\* the placeholder flag exactly then.
C31_NodeShowsWhatIsReadAfterBlur ==
    last.op = "blur" =>
        /\ pv[last.inp].content = OrElse(ReadFor(last.inp), PlaceholderOf(last.inp))
        /\ pv[last.inp].placeholder = Flag(ReadFor(last.inp) # <<>>)

\* 'a', a non-breaking space and a blank were left in the title node and the
\* node was left: field and node hold 'a'
C31_Witness ==
    /\ last.op = "blur" /\ last.inp = "title"
    /\ fields.title = <<"a">>
    /\ pv.title = Node(<<"a">>, "false", FALSE)


----------------------------------------------------------------------------
(* A rich-text editor that is created after ready() *)

\* The controls the library creates editors for: the summary and another one
EditorTargets == {"summary", "other"}

\* What getData() returns once the editor has loaded the textarea's value v:
\* the value itself, or the value as the editor formats it
LoadedData(v) == IF v = <<>> THEN {<<>>} ELSE {v, <<"<p>">> \o v \o <<"</p>">>}

\* Mutant of onInstanceReady: the listener does not look at the element of
\* the editor announced
onInstanceReadyOfAny(pg, f, image, p, editor, target) ==
    LET ed == bindCkEditor(editor)
        r == Render(pg, f, image, p, ed, "none")
    IN  [fields |-> r.fields, pv |-> r.pv, ck |-> ed]

\* The listener of CKEDITOR's instanceReady that ready() registers when the
\* summary has no instance yet; target is the control of the editor announced
onInstanceReady(pg, f, image, p, editor, target) ==
    IF target = "summary"
    THEN LET ed == bindCkEditor(editor)
             r == Render(pg, f, image, p, ed, "none")
         IN  [fields |-> r.fields, pv |-> r.pv, ck |-> ed]
    ELSE [fields |-> f, pv |-> p, ck |-> editor]

\* The library creates the editor of the summary: the instance is registered
\* under the textarea's id at once and returns the textarea's value until it
\* has loaded; nothing of the page's scripts runs
EditorCreated ==
    /\ ~ck.inst /\ focus = "none"
    /\ ck' = [ck EXCEPT !.inst = TRUE, !.data = fields.summary]
    /\ notes' = <<>>
    /\ last' = Event("created", "summary")
    /\ UNCHANGED <<absent, docs, page, fields, inputs, pv, focus, globalEndpoint, reqs>>

\* The library announces that the editor of `target` is ready, once for an
\* editor; the summary's editor has loaded its data d by then
InstanceReady(target, d) ==
    /\ focus = "none"
    /\ IF target = "summary"
       THEN ck.inst /\ ~ck.subscribed /\ d \in LoadedData(ck.data)
       ELSE d = ck.data
    /\ LET s1 == onInstanceReady(page, fields, inputs["main"].value, pv,
                                 [ck EXCEPT !.data = d], target)
       IN  /\ fields' = s1.fields
           /\ pv' = s1.pv
           /\ ck' = s1.ck
    /\ notes' = <<>>
    /\ last' = Event("instanceReady", target)
    /\ UNCHANGED <<absent, docs, page, inputs, focus, globalEndpoint, reqs>>

\* The page without an editor instance for the summary, then ready()
InitReady ==
    /\ absent = {}
    /\ docs = NoDocs
    /\ page \in {"admin", "site"}
    /\ globalEndpoint = "/upload"
    /\ focus = "none"
    /\ reqs = <<>>
    /\ notes = <<>>
    /\ last = NoLast
    /\ \E t \in Typed("summary") :
         LET st == ready(page, [EmptyFields EXCEPT !.summary = t],
                         [i \in Inputs |-> IF i = "main" THEN MarkupInput("", <<>>)
                                           ELSE NoInput],
                         "/upload", NoEditor)
         IN  /\ ck = st.ck
             /\ fields = st.fields
             /\ inputs = st.inputs
             /\ pv = st.pv

\* The user edits in the editor once it is ready
NextReady ==
    \/ \E name \in {"title", "summary"} : \E v \in Typed(name) : FieldInput(name, v)
    \/ FieldChange
    \/ EditorCreated
    \/ \E target \in EditorTargets : \E d \in LoadedData(ck.data) : InstanceReady(target, d)
    \/ \E v \in Typed("summary") : ck.subscribed /\ EditorChange(v)

SpecReady == InitReady /\ [][NextReady]_vars

\* The summary node shows the editor's data as the renderer reads it
ShowsEditorData ==
    pv.summary.content = OrElse(Trim(sanitizeHtml(decodeHtml(ck.data))), defaults.summary)

\* C32: on a page whose summary has no editor instance at ready(), the
\* renderer becomes subscribed only in the step in which the library announces
\* the readiness of the summary's editor, and that step renders the editor's
\* data; the announcement for another control changes nothing; and once
\* subscribed, every change notification of the editor renders its data.
C32_SubscribedAtReadiness ==
    [][/\ ck'.subscribed # ck.subscribed
            => (last'.op = "instanceReady" /\ last'.inp = "summary")
       /\ (last'.op = "instanceReady" /\ last'.inp = "summary")
            => (ck'.subscribed /\ ShowsEditorData')
       /\ (last'.op = "instanceReady" /\ last'.inp # "summary")
            => (ck' = ck /\ pv' = pv /\ fields' = fields)
       /\ (last'.op = "editor" /\ ck.subscribed) => ShowsEditorData']_vars

\* The editor of the summary was announced with the textarea's 's' formatted
\* as a paragraph: the renderer is subscribed and the preview shows it
C32_Witness ==
    /\ last.op = "instanceReady" /\ last.inp = "summary"
    /\ ck.subscribed /\ ck.data = <<"<p>", "s", "</p>">>
    /\ pv.summary.content = <<"<p>", "s", "</p>">>


----------------------------------------------------------------------------
(* The mutation observer: image inputs are bound again at every re-scan *)

\* The callback of the MutationObserver: bindAllImageInputs(), then
\* setupDocumentsInlineLayout(); `changed` tells whether either of them
\* inserted or moved an element
Rescan ==
    /\ Idle
    /\ inputs' = bindAllImageInputs(inputs, globalEndpoint)
    /\ docs' = [setupDocumentsInlineLayout(docs) EXCEPT
                  !.changed = @ \/ inputs' # inputs]
    /\ notes' = <<>>
    /\ last' = Event("rescan", "main")
    /\ UNCHANGED <<absent, page, fields, pv, focus, ck, globalEndpoint, reqs>>

\* A script inserts the #documents container, inside a fieldset or not, the
\* fieldset having the wrapper already or not
InsertDocuments(fieldset, wrapper) ==
    /\ Idle /\ ~docs.present
    /\ docs' = [NoDocs EXCEPT !.present = TRUE, !.fieldset = fieldset,
                              !.wrapper = fieldset /\ wrapper]
    /\ notes' = <<>>
    /\ last' = Event("insert", "documents")
    /\ UNCHANGED <<absent, page, fields, inputs, pv, focus, ck, globalEndpoint, reqs>>

\* A script inserts image input i into the page, with or without an endpoint
\* of its own; the observer is called afterwards
InsertInput(i, endpointAttr) ==
    /\ Idle /\ ~inputs[i].present
    /\ inputs' = [inputs EXCEPT ![i] = MarkupInput(endpointAttr, <<>>)]
    /\ notes' = <<>>
    /\ last' = Event("insert", i)
    /\ UNCHANGED <<absent, docs, page, fields, pv, focus, ck, globalEndpoint, reqs>>

NextRescan ==
    \/ Rescan
    \/ \E endpointAttr \in {"", "/card-upload"} : InsertInput("late", endpointAttr)
    \/ \E fieldset, wrapper \in BOOLEAN : InsertDocuments(fieldset, wrapper)
    \/ \E i \in Inputs, payload \in Payloads : Paste(i, payload)
    \/ \E i \in Inputs, payload \in Payloads : Drop(i, payload)
    \/ \E i \in Inputs, payload \in Payloads : FilePick(i, payload)

SpecRescan == InitUpload /\ [][NextRescan]_vars

\* C33: whatever the number of re-scans, an image input carries at most one
\* set of upload listeners, and one only when it has an endpoint; a re-scan
\* binds every input that is on the page and leaves a bound one as it is; a
\* drop, paste or file selection with files on an input that has its listeners
\* starts exactly one upload.
C33_BoundOnce ==
    /\ [](\A i \in Inputs :
            /\ inputs[i].handlers <= 1
            /\ inputs[i].handlers = 1
                 => (inputs[i].bound /\ getUploadEndpoint(inputs[i], globalEndpoint) # ""))
    /\ [][/\ last'.op = "rescan"
               => \A i \in Inputs :
                    /\ inputs[i].present => inputs'[i].bound
                    /\ (inputs[i].present /\ ~inputs[i].bound
                          /\ getUploadEndpoint(inputs[i], globalEndpoint) # "")
                         => inputs'[i].handlers = 1
                    /\ inputs[i].bound => inputs'[i] = inputs[i]
          /\ (last'.op \in {"paste", "drop", "pick"} /\ last'.files > 0
                /\ inputs[last'.inp].handlers > 0)
               => Len(reqs') = Len(reqs) + 1]_vars

\* the input inserted after ready() was bound by a re-scan, re-scanned again,
\* and one file dropped on it started one upload
C33_Witness ==
    /\ last.op = "drop" /\ last.inp = "late" /\ last.files > 0
    /\ inputs["late"].handlers = 1
    /\ Len(reqs) = 1 /\ reqs[1].inp = "late"


----------------------------------------------------------------------------
(* The drag highlight of the upload wrapper *)

\* Where a dragged pointer can be, seen from the upload wrapper of an input:
\* outside of it, on the wrapper itself, or on one of the elements inside it.
\* `pointer` of an input is the element the pointer is on, `left` the element
\* it came from for as long as that element's dragleave is still to be
\* dispatched ("" otherwise).
DragPlaces == {"outside", "wrapper", "child"}

\* wrapper.contains(place): the wrapper contains itself
InWrapper(place) == place \in {"wrapper", "child"}

\* The dragleave listener, the event having `target` and `relatedTarget`
onDragLeave(field, target, relatedTarget) ==
    IF target = "wrapper" \/ ~InWrapper(relatedTarget)
    THEN [field EXCEPT !.dragover = FALSE]
    ELSE field

\* The pointer moves to element `to` (another child when it already is on a
\* child): dragenter is dispatched there and reaches the wrapper's listener
\* when `to` is inside the wrapper.
DragEnter(i, to) ==
    /\ Idle /\ inputs[i].present /\ inputs[i].left = ""
    /\ to # inputs[i].pointer \/ to = "child"
    /\ inputs' = [inputs EXCEPT ![i] =
                    [@ EXCEPT !.left = inputs[i].pointer,
                              !.pointer = to,
                              !.dragover = IF inputs[i].handlers > 0 /\ InWrapper(to)
                                           THEN TRUE ELSE @]]
    /\ notes' = <<>>
    /\ last' = Event("dragenter", i)
    /\ UNCHANGED <<absent, docs, page, fields, pv, focus, ck, globalEndpoint, reqs>>

\* dragover, dispatched again and again on the element under the pointer
DragOver(i) ==
    /\ Idle /\ inputs[i].present /\ inputs[i].left = ""
    /\ InWrapper(inputs[i].pointer)
    /\ inputs' = [inputs EXCEPT ![i].dragover = IF inputs[i].handlers > 0 THEN TRUE ELSE @]
    /\ notes' = <<>>
    /\ last' = Event("dragover", i)
    /\ UNCHANGED <<absent, docs, page, fields, pv, focus, ck, globalEndpoint, reqs>>

\* dragleave, dispatched after the dragenter on the element the pointer came
\* from, the element entered being its relatedTarget
DragLeave(i) ==
    /\ Idle /\ inputs[i].present /\ inputs[i].left # ""
    /\ inputs' = [inputs EXCEPT ![i] =
                    [(IF inputs[i].handlers > 0 /\ InWrapper(inputs[i].left)
                      THEN onDragLeave(@, inputs[i].left, inputs[i].pointer)
                      ELSE @) EXCEPT !.left = ""]]
    /\ notes' = <<>>
    /\ last' = Event("dragleave", i)
    /\ UNCHANGED <<absent, docs, page, fields, pv, focus, ck, globalEndpoint, reqs>>

\* dragend reaches the wrapper when the dragged element is inside it
DragEnd(i) ==
    /\ Idle /\ inputs[i].present /\ inputs[i].left = ""
    /\ inputs' = [inputs EXCEPT ![i].dragover = IF inputs[i].handlers > 0 THEN FALSE ELSE @]
    /\ notes' = <<>>
    /\ last' = Event("dragend", i)
    /\ UNCHANGED <<absent, docs, page, fields, pv, focus, ck, globalEndpoint, reqs>>

NextDrag ==
    \/ \E i \in Inputs, to \in DragPlaces : DragEnter(i, to)
    \/ \E i \in Inputs : DragOver(i)
    \/ \E i \in Inputs : DragLeave(i)
    \/ \E i \in Inputs : DragEnd(i)
    \/ \E i \in Inputs, payload \in Payloads :
          /\ InWrapper(inputs[i].pointer) /\ inputs[i].left = ""
          /\ Drop(i, payload)
    \/ \E k \in 1..MaxUploads, o \in Outcomes : Settle(k, o)
    \/ \E k \in 1..MaxUploads : Finally(k)

SpecDrag == InitUpload /\ [][NextDrag]_vars

\* C34: a dragleave on a highlighted wrapper clears the highlight exactly when
\* the pointer has left the wrapper, and keeps it when the pointer has moved
\* between the wrapper and an element inside it; a drop and a dragend on a
\* wrapper with listeners leave it without the highlight.
C34_HighlightUntilLeft ==
    [][/\ (last'.op = "dragleave" /\ inputs[last'.inp].dragover)
            => (inputs'[last'.inp].dragover <=> InWrapper(inputs[last'.inp].pointer))
       /\ last'.op \in {"drop", "dragend"} => ~inputs'[last'.inp].dragover]_vars


----------------------------------------------------------------------------
(* Activation of the preview: from the preview to the form controls *)

\* click on preview node n, which lies in the trigger element of its action.
\* The admin form's getActionTarget is closest('[data-preview-trigger]'); the
\* site's returns null inside an editable node, and the click stays with the
\* node (which has the focus by then when it accepts edits).
ClickNode(n) ==
    /\ ElementOf(n) \notin absent
    /\ IF page = "site" /\ Bound(n) THEN focus = n ELSE focus = "none"
    /\ LET target == IF page = "site" THEN getActionTarget(n) ELSE TriggerOf(n)
       IN  last' = [Event("click", n) EXCEPT
                      !.control = IF target = "none" THEN "none"
                                  ELSE handleAction(target, inputs, ck)]
    /\ notes' = <<>>
    /\ UNCHANGED <<absent, docs, page, fields, inputs, pv, focus, ck, globalEndpoint, reqs>>

\* Pages with and without an endpoint for the image (hence with and without an
\* upload button), with and without a rich-text editor, lacking some controls
InitTrigger ==
    /\ absent \in Absences
    /\ docs = NoDocs
    /\ page \in {"admin", "site"}
    /\ globalEndpoint \in {"", "/upload"}
    /\ focus = "none"
    /\ reqs = <<>>
    /\ notes = <<>>
    /\ last = NoLast
    /\ \E inst \in BOOLEAN :
         LET st == ready(page, Seen(SentFields),
                         [i \in Inputs |-> IF i = "main" /\ "imageUrl" \notin absent
                                           THEN MarkupInput("", <<"u0">>) ELSE NoInput],
                         globalEndpoint,
                         [NoEditor EXCEPT !.inst = inst /\ "summary" \notin absent,
                                          !.data = <<"s">>])
         IN  /\ ck = st.ck
             /\ fields = st.fields
             /\ inputs = st.inputs
             /\ pv = st.pv

NextTrigger ==
    \/ \E a \in Triggers : PreviewTrigger(a)
    \/ \E n \in Nodes : ClickNode(n)
    \/ \E n \in Nodes : FocusNode(n)
    \/ \E n \in Nodes : BlurNode(n)

SpecTrigger == InitTrigger /\ [][NextTrigger]_vars

\* The form control of an action, as the page has it
ControlOf(a) ==
    CASE a \in {"title", "summary", "badge"} -> a
      [] a = "date" -> "displayDate"
      [] a = "link" -> "linkLabel"
      [] a = "image" -> "imageUrl"
      [] OTHER -> "none"

\* What an activation for action a is to reach: the upload button for the
\* image when there is one, the control of the action when the page has it
\* (for the summary its editor when there is one), nothing otherwise
Activated(a) ==
    IF a = "image" /\ HasUploadButton(inputs) THEN "uploadButton"
    ELSE IF ControlOf(a) \in absent \cup {"none"} THEN "none"
    ELSE IF a = "summary" /\ ck.inst THEN "editor"
    ELSE ControlOf(a)

\* C35: an activation on an element tagged with an action, or on a node lying
\* in one, reaches the control of the action (the upload button for the image
\* when there is one) and changes nothing else; nothing at all happens for an
\* unknown action or a control the page lacks.
C35_ActivationReachesControl ==
    [][last'.op \in {"trigger", "click"}
         => /\ last'.control =
                 Activated(IF last'.op = "trigger" THEN last'.inp ELSE TriggerOf(last'.inp))
            /\ UNCHANGED <<fields, inputs, pv, focus, ck, reqs>>]_vars

\* C35, amended: the same for an activation outside of the editable nodes; on
\* the site, an activation inside a node that is marked editable reaches no
\* control and changes nothing.
C35_ActivationOutsideEditable ==
    [][last'.op \in {"trigger", "click"}
         => /\ last'.control =
                 IF last'.op = "trigger" THEN Activated(last'.inp)
                 ELSE IF page = "site" /\ Editable(last'.inp) THEN "none"
                 ELSE Activated(TriggerOf(last'.inp))
            /\ UNCHANGED <<fields, inputs, pv, focus, ck, reqs>>]_vars

\* the image action has clicked the upload button of a page that has one
C35_Witness ==
    /\ last.op = "trigger" /\ last.inp = "image"
    /\ last.control = "uploadButton"
    /\ "imageUrl" \notin absent


----------------------------------------------------------------------------
(* The transform of the preview image and the fields it is computed from *)

\* The number a field holds, in units of 10^-digits; -1 for a field that
\* holds no number of at most that many decimals
HeldValue(value, digits) ==
    IF value.k = "num" /\ value.d <= digits
    THEN value.m * Pow10(digits - value.d)
    ELSE -1

\* C36: whenever the preview image carries a transform, its scale and its
\* rotation are the numbers that the scale field and the rotation field hold
\* (the state after any handler is the state after its last render).
C36_TransformShowsFields ==
    pv.image.transform.on
        => /\ pv.image.transform.scale = HeldValue(fields.imageScale, 3)
           /\ pv.image.transform.rotation = HeldValue(fields.imageRotation, 1)


----------------------------------------------------------------------------
(* The renders that run while a preview node has the focus *)

\* C37: a node that has the focus before and after a handler holds afterwards
\* what the user left in it: what they typed in the step when the handler is
\* the node's own input listener, what it held before otherwise (an editor
\* notification, a render for another reason).
C37_FocusedNodeKept ==
    [][\A n \in Nodes :
         (focus = n /\ focus' = n)
           => /\ last'.op # "edit" => pv'[n].content = pv[n].content
              /\ \A c \in Edits(n, pv[n].content) :
                   (last'.op = "edit" /\ InputNode(n, c)) => pv'[n].content = c]_vars


----------------------------------------------------------------------------
(* The syncing flag of the summary node *)

\* C38: when a handler has returned, no preview node carries the syncing
\* flag: the render that the reverse sync calls right after setting it has
\* deleted it.
C38_SyncingConsumed == \A n \in Nodes : ~pv[n].syncing

\* the reverse sync of the focused summary node went through the editor: the
\* flag was set, the render wrote the node although it has the focus (here the
\* placeholder, the editor's data being empty) and deleted the flag
C38_Witness ==
    /\ last.op = "edit" /\ last.inp = "summary" /\ focus = "summary"
    /\ ck.inst /\ ck.data = <<>>
    /\ pv.summary.content = defaults.summary
    /\ ~pv.summary.syncing


----------------------------------------------------------------------------
(* What one event sets off: notifications, renders, queued callbacks *)

\* The responses looked at here: no response, and the stored image
CascadeOutcomes ==
    {o \in Outcomes : o.err = "" /\ (o.net => (o.ok /\ o.uploaded = "1" /\ o.url # <<>>))}

\* Field input, edits of the summary node, changes in the editor, drops on
\* the image input, and the callbacks all of these queue
NextCascade ==
    \/ \E v \in {<<>>, <<" ", "a">>} : FieldInput("title", v)
    \/ FieldChange
    \/ OnlyNodeEdited("summary") /\ FocusNode("summary")
    \/ \E c \in Typed("summary") : InputNode("summary", c)
    \/ BlurNode("summary")
    \/ \E v \in Typed("summary") : EditorChange(v)
    \/ EditorNotify
    \/ Drop("main", <<"f1">>)
    \/ \E k \in 1..MaxUploads, o \in CascadeOutcomes : Settle(k, o)
    \/ \E k \in 1..MaxUploads : Finally(k)

SpecCascade == Init /\ [][NextCascade]_vars

\* The callbacks that the handlers so far have left to run: the notifications
\* the editor still owes, and the .finally of the requests that were answered
Queued == ck.pending + Cardinality({k \in 1..Len(reqs) : reqs[k].stage = "settled"})

\* C39: a handler dispatches at most the two notifications input and change,
\* whose renders run within it; a queued callback (a notification of the
\* editor, a .finally) takes one off the callbacks that are left, dispatches
\* nothing and writes no field and no editor data; a render after a field
\* input or an editor change queues nothing; any other handler queues at most
\* one callback. The callbacks left after an event are therefore run in as
\* many steps, and the page is quiet.
C39_BoundedCascade ==
    /\ [](Len(notes) <= 2)
    /\ [][/\ last'.op \in {"notify", "finally"}
               => /\ Queued' = Queued - 1
                  /\ notes' = <<>>
                  /\ ck'.data = ck.data
                  /\ \A name \in TextFields : fields'[name] = fields[name]
          /\ last'.op \in {"input", "change", "editor"} => Queued' = Queued
          /\ Queued' <= Queued + 1]_vars

\* an edit of the summary node went to the editor, the editor's notification
\* was rendered, and nothing is left to run
C39_Witness ==
    /\ last.op = "notify" /\ Queued = 0
    /\ ck.data = <<"s">> /\ pv.summary.content = <<"s">>
    /\ fields.summary = <<>>


----------------------------------------------------------------------------
(* The re-scans of the mutation observer come to rest *)

\* Every image input of the page and the #documents container are flagged
AllBound ==
    /\ \A i \in Inputs : inputs[i].present => inputs[i].bound
    /\ docs.present => docs.bound

\* What the layout has done with the #documents container
Layout(d) == [d EXCEPT !.changed = FALSE]

\* C40: a re-scan in a state where every image input and the #documents
\* container are flagged changes nothing in the document; a re-scan that
\* follows a re-scan changes nothing either, whatever the first one found
\* (the observer is called again for the first one's insertions, and not for
\* the second one's, which makes none).
C40_RescanFixpoint ==
    [][last'.op = "rescan"
         => /\ (AllBound \/ last.op = "rescan")
                 => (~docs'.changed /\ inputs' = inputs /\ Layout(docs') = Layout(docs))
            /\ docs'.changed <=> (inputs' # inputs \/ Layout(docs') # Layout(docs))]_vars

\* an image input and the #documents container were inserted after ready(),
\* a re-scan bound both, and the re-scan after it changed nothing
C40_Witness ==
    /\ last.op = "rescan" /\ ~docs.changed
    /\ inputs["late"].bound /\ inputs["late"].handlers = 1
    /\ docs.bound /\ docs.inWrapper

=============================================================================
